---------------------------- MODULE Spec2Model ----------------------------
(***************************************************************************)
(* GraphSense: the planar graph store (graph_model.py), the geometry       *)
(* engine (geometry.py) and the insertion commands (commands.py).          *)
(*                                                                         *)
(* Numbers.  The program computes with IEEE doubles.  Here a coordinate or *)
(* a length is an integer number of 1/Unit pixels, a unit vector, a sine   *)
(* or a cosine is an integer number of 1/Scale, and every quotient and     *)
(* square root is rounded to the nearest integer.  Orientation tests       *)
(* (cross products of coordinates) are rounded as floats of MantissaBits   *)
(* significant bits: exact for the coordinates of a canvas, rounded for    *)
(* coordinates that need all the bits of a float.                          *)
(*                                                                         *)
(* Objects.  A Python list is an object that several holders can share:    *)
(* heap maps a reference to the list it holds, and a graph or a snapshot   *)
(* document holds its periphery as a reference.  A dict iterates in        *)
(* insertion order: a graph keeps the order of its vertex keys in vorder.  *)
(* A set iterates in an order the interpreter picks (string hashes are     *)
(* salted per process): wherever the result depends on it, every order is  *)
(* a possible outcome.                                                     *)
(***************************************************************************)
EXTENDS Integers, Sequences, FiniteSets, TLC

VARIABLES graph, heap, lastOp, passes

vars == <<graph, heap, lastOp, passes>>

-----------------------------------------------------------------------------
(* Bounds of the model *)

\* add_vertex is not offered once the next id would exceed this; larger graphs
\* come from the initial triangle, from snapshots and from insertions.
MaxVertexId == 2

\* A run is followed until this many calls have moved or added vertices in a
\* relaxation pass (apply_redraw_logic).
MaxPasses == 1

Graphs == {"g1", "g2"}
Refs == {"L1", "L2", "L3", "L4"}

\* Positions (in pixels) a caller passes to add_vertex.
InputPoints == {<<300, 300>>, <<500, 300>>}

\* Fixed point: coordinates in 1/Unit pixels, directions in 1/Scale.
Unit == 10

Scale == 10000

-----------------------------------------------------------------------------
(* Arithmetic *)

Abs(n) == IF n < 0 THEN -n ELSE n

Min2(a, b) == IF a <= b THEN a ELSE b

Max2(a, b) == IF a >= b THEN a ELSE b

(* The coordinates are floats.  A sum, difference or product that needs    *)
(* more significant bits than the mantissa has is rounded to the nearest   *)
(* float, ties to the even mantissa.  The doubles of the code have 53      *)
(* bits; the floats here have MantissaBits, so that the results that are   *)
(* rounded stay within the integers that can be computed with.  Rounding   *)
(* is modelled where it decides an outcome: in the translation of a graph  *)
(* and in the cross products whose sign orders the periphery.              *)

\* the significant bits of a float: integers below 2^MantissaBits, in tenths
\* of a pixel, are floats, larger ones are floats when a multiple of their spacing
MantissaBits == 20

RECURSIVE FloatRound(_, _)
\* the float nearest to n, a multiple of the spacing that the size of n asks for
FloatRound(n, spacing) ==
    IF Abs(n) >= (2 ^ MantissaBits) * spacing THEN FloatRound(n, 2 * spacing)
    ELSE LET q == n \div spacing
             r == n % spacing
         IN  IF 2 * r < spacing THEN q * spacing
             ELSE IF 2 * r > spacing THEN (q + 1) * spacing
             ELSE IF q % 2 = 0 THEN q * spacing ELSE (q + 1) * spacing


\* a / b rounded to the nearest integer (half away from zero), b > 0.
RoundDiv(a, b) ==
    IF a >= 0 THEN (2 * a + b) \div (2 * b) ELSE -((2 * (-a) + b) \div (2 * b))

\* one Newton step towards sqrt(n) from x >= 1
NewtonStep(n, x) == (x + n \div x) \div 2

RECURSIVE Newton(_, _, _)
\* k Newton steps from x
Newton(n, x, k) == IF k = 0 THEN x ELSE Newton(n, NewtonStep(n, x), k - 1)

\* a power of ten above sqrt(n), for 0 < n < 2^31
SqrtStart(n) ==
    IF n < 100 THEN 10
    ELSE IF n < 10000 THEN 100
    ELSE IF n < 1000000 THEN 1000
    ELSE IF n < 100000000 THEN 10000
    ELSE 46340

\* floor(sqrt(n)) from an x at most one away from it
SqrtCorrect(n, x) ==
    IF x * x > n THEN x - 1
    ELSE IF x < 46340 /\ (x + 1) * (x + 1) <= n THEN x + 1
    ELSE x

\* floor(sqrt(n)) for 0 <= n < 2^31: six Newton steps from a power of ten
\* above the root, then one correction
SqrtFloor(n) == IF n = 0 THEN 0 ELSE SqrtCorrect(n, Newton(n, SqrtStart(n), 6))

\* r or r + 1, whichever is nearer to sqrt(n), for r = floor(sqrt(n))
SqrtNearest(n, r) == IF n - r * r > r THEN r + 1 ELSE r

\* sqrt(n) rounded to the nearest integer
Sqrt(n) == SqrtNearest(n, SqrtFloor(n))

\* e, with v evaluated first.  TLC evaluates an argument or a LET definition
\* where it is first used, so a loop that hands its accumulator to the next
\* round unevaluated nests all its rounds; this keeps them apart.
Strict(v, e) == IF v = v THEN e ELSE e

RECURSIVE SumOver(_, _)
\* the sum of f[i] over i in 1..n
SumOver(f, n) == IF n = 0 THEN 0 ELSE f[n] + SumOver(f, n - 1)

RECURSIVE NumDigits(_)
NumDigits(n) == IF n < 10 THEN 1 ELSE 1 + NumDigits(n \div 10)

Range(s) == {s[i] : i \in 1..Len(s)}

Reverse(s) == [i \in 1..Len(s) |-> s[Len(s) + 1 - i]]

\* s.index(x): the first position of x, 0 when absent
IndexOf(s, x) ==
    IF x \in Range(s) THEN CHOOSE i \in 1..Len(s) : s[i] = x /\ \A j \in 1..(i - 1) : s[j] # x
    ELSE 0

\* s[lo..hi], empty when lo > hi
Slice(s, lo, hi) == IF lo > hi THEN <<>> ELSE SubSeq(s, lo, hi)

\* list.remove(x): drop the first occurrence
RemoveFirst(s, x) ==
    LET i == IndexOf(s, x)
    IN  IF i = 0 THEN s ELSE Slice(s, 1, i - 1) \o Slice(s, i + 1, Len(s))

RECURSIVE SeqsOf(_)
\* every ordering of the finite set S
SeqsOf(S) ==
    IF S = {} THEN {<<>>}
    ELSE UNION {{<<x>> \o t : t \in SeqsOf(S \ {x})} : x \in S}

-----------------------------------------------------------------------------
(* graph_model.py: Vertex, Edge *)

\* Vertex._calculate_diameter
CalculateDiameter(id) == 30 + (NumDigits(id) - 1) * 5

\* Vertex.__init__
Vertex(id, x, y, color_index) ==
    [id |-> id, x |-> x, y |-> y, color_index |-> color_index,
     diameter |-> CalculateDiameter(id)]

\* Vertex.distance_to
DistanceTo(v, w) == Sqrt((v.x - w.x) * (v.x - w.x) + (v.y - w.y) * (v.y - w.y))

\* Edge.__init__ with the endpoints in the wrong order
EdgeAsGiven(a, b) == <<a, b>>

\* Edge.__init__: the canonical pair; __eq__ and __hash__ compare it
Edge(a, b) == <<Min2(a, b), Max2(a, b)>>

\* Edge.contains_vertex
ContainsVertex(e, id) == id = e[1] \/ id = e[2]

-----------------------------------------------------------------------------
(* graph_model.py: PlanarGraph.  A method takes and returns a world        *)
(* w = [gs |-> the graphs, hp |-> the heap of lists]; a method that can    *)
(* raise returns [w |-> the world at the raise or return, err |-> the      *)
(* exception or "", ret |-> its result].                                   *)

NoErr == ""

Result(w, err, ret) == [w |-> w, err |-> err, ret |-> ret]

\* a reference no graph holds: where a new list is put
NewRef(w) == CHOOSE r \in Refs : \A h \in Graphs : w.gs[h].periphery # r

\* PlanarGraph.__init__
EmptyGraph(ref) ==
    [vertices |-> <<>>, vorder |-> <<>>, edges |-> {}, adjacency |-> <<>>,
     periphery |-> ref, next_vertex_id |-> 1]

Periphery(w, g) == w.hp[w.gs[g].periphery]

SetGraph(w, g, G) == [w EXCEPT !.gs[g] = G]

\* self.periphery = <a new list>
AssignNewPeriphery(w, g, list) ==
    LET r == NewRef(w)
    IN  [gs |-> [w.gs EXCEPT ![g].periphery = r], hp |-> [w.hp EXCEPT ![r] = list]]

\* dict[key] = value: a new key goes to the end of the iteration order
DictKeys(order, key) == IF key \in Range(order) THEN order ELSE Append(order, key)

DictPut(f, key, val) == [k \in DOMAIN f \cup {key} |-> IF k = key THEN val ELSE f[k]]

DictDel(f, key) == [k \in DOMAIN f \ {key} |-> f[k]]

\* PlanarGraph.add_vertex giving out the lowest id no vertex has
add_vertex_lowest_free(w, g, x, y, color_index) ==
    LET G == w.gs[g]
        vertex_id == CHOOSE id \in 1..G.next_vertex_id :
                        /\ id \notin DOMAIN G.vertices \/ id = G.next_vertex_id
                        /\ \A k \in 1..(id - 1) : k \in DOMAIN G.vertices
    IN  Result(SetGraph(w, g,
                 [G EXCEPT !.next_vertex_id = @ + 1,
                           !.vertices = DictPut(G.vertices, vertex_id,
                                                Vertex(vertex_id, x, y, color_index)),
                           !.vorder = DictKeys(G.vorder, vertex_id),
                           !.adjacency = DictPut(G.adjacency, vertex_id, {})]),
               NoErr, vertex_id)

\* PlanarGraph.add_vertex; ret is the new id
add_vertex(w, g, x, y, color_index) ==
    LET G == w.gs[g]
        vertex_id == G.next_vertex_id
    IN  Result(SetGraph(w, g,
                 [G EXCEPT !.next_vertex_id = vertex_id + 1,
                           !.vertices = DictPut(G.vertices, vertex_id,
                                                Vertex(vertex_id, x, y, color_index)),
                           !.vorder = DictKeys(G.vorder, vertex_id),
                           !.adjacency = DictPut(G.adjacency, vertex_id, {})]),
               NoErr, vertex_id)

\* PlanarGraph.add_edge keeping the pair as given
add_edge_uncanonical(w, g, v1_id, v2_id) ==
    LET G == w.gs[g]
    IN  IF v1_id \notin DOMAIN G.vertices \/ v2_id \notin DOMAIN G.vertices
        THEN Result(w, "ValueError", FALSE)
        ELSE IF v1_id = v2_id THEN Result(w, NoErr, FALSE)
        ELSE IF EdgeAsGiven(v1_id, v2_id) \in G.edges THEN Result(w, NoErr, FALSE)
        ELSE Result(SetGraph(w, g,
                      [G EXCEPT !.edges = @ \cup {EdgeAsGiven(v1_id, v2_id)},
                                !.adjacency[v1_id] = @ \cup {v2_id},
                                !.adjacency[v2_id] = @ \cup {v1_id}]),
                    NoErr, TRUE)

\* PlanarGraph.add_edge with the self-loop test before the test for the vertices
add_edge_self_loop_first(w, g, v1_id, v2_id) ==
    LET G == w.gs[g]
    IN  IF v1_id = v2_id THEN Result(w, NoErr, FALSE)
        ELSE IF v1_id \notin DOMAIN G.vertices \/ v2_id \notin DOMAIN G.vertices
        THEN Result(w, "ValueError", FALSE)
        ELSE IF Edge(v1_id, v2_id) \in G.edges THEN Result(w, NoErr, FALSE)
        ELSE Result(SetGraph(w, g,
                      [G EXCEPT !.edges = @ \cup {Edge(v1_id, v2_id)},
                                !.adjacency[v1_id] = @ \cup {v2_id},
                                !.adjacency[v2_id] = @ \cup {v1_id}]),
                    NoErr, TRUE)

\* PlanarGraph.add_edge without self.adjacency[v2_id].add(v1_id)
add_edge_one_sided(w, g, v1_id, v2_id) ==
    LET G == w.gs[g]
    IN  IF v1_id \notin DOMAIN G.vertices \/ v2_id \notin DOMAIN G.vertices
        THEN Result(w, "ValueError", FALSE)
        ELSE IF v1_id = v2_id THEN Result(w, NoErr, FALSE)
        ELSE IF Edge(v1_id, v2_id) \in G.edges THEN Result(w, NoErr, FALSE)
        ELSE Result(SetGraph(w, g,
                      [G EXCEPT !.edges = @ \cup {Edge(v1_id, v2_id)},
                                !.adjacency[v1_id] = @ \cup {v2_id}]),
                    NoErr, TRUE)

\* PlanarGraph.add_edge; ret is the boolean it returns
add_edge(w, g, v1_id, v2_id) ==
    LET G == w.gs[g]
    IN  IF v1_id \notin DOMAIN G.vertices \/ v2_id \notin DOMAIN G.vertices
        THEN Result(w, "ValueError", FALSE)
        ELSE IF v1_id = v2_id THEN Result(w, NoErr, FALSE)
        ELSE IF Edge(v1_id, v2_id) \in G.edges THEN Result(w, NoErr, FALSE)
        ELSE Result(SetGraph(w, g,
                      [G EXCEPT !.edges = @ \cup {Edge(v1_id, v2_id)},
                                !.adjacency[v1_id] = @ \cup {v2_id},
                                !.adjacency[v2_id] = @ \cup {v1_id}]),
                    NoErr, TRUE)

\* remove_vertex without its last step: the periphery keeps the removed id
remove_vertex_keep_periphery(w, g, vertex_id) ==
    LET G == w.gs[g]
    IN  IF vertex_id \notin DOMAIN G.vertices THEN {Result(w, NoErr, FALSE)}
        ELSE IF ~(G.adjacency[vertex_id] \subseteq DOMAIN G.adjacency)
        THEN {Result(SetGraph(w, g, [G EXCEPT !.edges = {e \in G.edges : ~ContainsVertex(e, vertex_id)}]),
                     "KeyError", FALSE)}
        ELSE {Result(SetGraph(w, g,
                [G EXCEPT !.edges = {e \in G.edges : ~ContainsVertex(e, vertex_id)},
                          !.vertices = DictDel(G.vertices, vertex_id),
                          !.vorder = RemoveFirst(G.vorder, vertex_id),
                          !.adjacency = DictDel([k \in DOMAIN G.adjacency |->
                                                   G.adjacency[k] \ {vertex_id}], vertex_id)]),
                NoErr, TRUE)}

\* PlanarGraph.remove_vertex.  The loop over the neighbours raises KeyError at
\* a neighbour that has no adjacency entry; the neighbours are a set, so which
\* of the others were cleaned before the raise is any subset of them.
remove_vertex_outcomes(w, g, vertex_id) ==
    LET G == w.gs[g]
    IN  IF vertex_id \notin DOMAIN G.vertices THEN {Result(w, NoErr, FALSE)}
        ELSE
          LET edges1 == {e \in G.edges : ~ContainsVertex(e, vertex_id)}
              nbrs == G.adjacency[vertex_id]
              known == nbrs \cap DOMAIN G.adjacency
              cleaned(S) == [k \in DOMAIN G.adjacency |->
                               IF k \in S THEN G.adjacency[k] \ {vertex_id}
                               ELSE G.adjacency[k]]
          IN  IF nbrs \subseteq DOMAIN G.adjacency
              THEN LET G2 == [G EXCEPT !.edges = edges1,
                                       !.vertices = DictDel(G.vertices, vertex_id),
                                       !.vorder = RemoveFirst(G.vorder, vertex_id),
                                       !.adjacency = DictDel(cleaned(nbrs), vertex_id)]
                       hp2 == IF vertex_id \in Range(Periphery(w, g))
                              THEN [w.hp EXCEPT ![G.periphery] = RemoveFirst(@, vertex_id)]
                              ELSE w.hp
                   IN  {Result([gs |-> [w.gs EXCEPT ![g] = G2], hp |-> hp2], NoErr, TRUE)}
              ELSE {Result(SetGraph(w, g, [G EXCEPT !.edges = edges1,
                                                    !.adjacency = cleaned(S)]),
                           "KeyError", FALSE) : S \in SUBSET known}

\* PlanarGraph.get_neighbors
get_neighbors(G, vertex_id) ==
    IF vertex_id \in DOMAIN G.adjacency THEN G.adjacency[vertex_id] ELSE {}

\* PlanarGraph.is_edge
is_edge(G, v1_id, v2_id) == Edge(v1_id, v2_id) \in G.edges

-----------------------------------------------------------------------------
(* PlanarGraph.update_periphery: Andrew's monotone chain *)

\* cross_product(o, a, b) of update_periphery, on (x, y, id) triples: every
\* difference and product is a float
CrossProduct(o, a, b) ==
    FloatRound(FloatRound(FloatRound(a[1] - o[1], 1) * FloatRound(b[2] - o[2], 1), 1)
                 - FloatRound(FloatRound(a[2] - o[2], 1) * FloatRound(b[1] - o[1], 1), 1), 1)

\* tuple comparison p < q of (x, y, id) triples
TupleLess(p, q) ==
    \/ p[1] < q[1]
    \/ p[1] = q[1] /\ p[2] < q[2]
    \/ p[1] = q[1] /\ p[2] = q[2] /\ p[3] < q[3]

RECURSIVE SortTuples(_)
\* list.sort() of a list of distinct triples
SortTuples(S) ==
    IF S = {} THEN <<>>
    ELSE LET m == CHOOSE p \in S : \A q \in S \ {p} : TupleLess(p, q)
         IN  <<m>> \o SortTuples(S \ {m})

RECURSIVE HullPushKeepCollinear(_, _)
\* the pruning loop with "< 0": collinear and repeated points stay
HullPushKeepCollinear(stack, p) ==
    IF Len(stack) >= 2 /\ CrossProduct(stack[Len(stack) - 1], stack[Len(stack)], p) < 0
    THEN HullPushKeepCollinear(Slice(stack, 1, Len(stack) - 1), p)
    ELSE Append(stack, p)

RECURSIVE HullPush(_, _)
\* while len(hull) >= 2 and cross_product(hull[-2], hull[-1], p) <= 0: pop; append p
HullPush(stack, p) ==
    IF Len(stack) >= 2 /\ CrossProduct(stack[Len(stack) - 1], stack[Len(stack)], p) <= 0
    THEN HullPush(Slice(stack, 1, Len(stack) - 1), p)
    ELSE Append(stack, p)

RECURSIVE HullChain(_, _)
\* one half hull: push the points of pts in order onto stack
HullChain(stack, pts) ==
    IF pts = <<>> THEN stack
    ELSE LET pushed == HullPush(stack, Head(pts))
         IN  Strict(pushed, HullChain(pushed, Tail(pts)))

\* the hull listed the other way round: upper[:-1] + lower[:-1], reversed
HullIdsOtherWay(vertices_list) ==
    LET sorted == SortTuples(Range(vertices_list))
        lower == HullChain(<<>>, sorted)
        upper == HullChain(<<>>, Reverse(sorted))
        hull == Reverse(Slice(lower, 1, Len(lower) - 1) \o Slice(upper, 1, Len(upper) - 1))
    IN  Strict(sorted, Strict(lower, Strict(upper, [i \in 1..Len(hull) |-> hull[i][3]])))

\* the ids of the hull of a list of (x, y, id) triples, as update_periphery lists them
HullIds(vertices_list) ==
    LET sorted == SortTuples(Range(vertices_list))
        lower == HullChain(<<>>, sorted)
        upper == HullChain(<<>>, Reverse(sorted))
        hull == Slice(lower, 1, Len(lower) - 1) \o Slice(upper, 1, Len(upper) - 1)
    IN  Strict(sorted, Strict(lower, Strict(upper, [i \in 1..Len(hull) |-> hull[i][3]])))

\* the vertices in dict order
VertexValues(G) == [i \in 1..Len(G.vorder) |-> G.vertices[G.vorder[i]]]

\* update_periphery without its early return for fewer than three vertices
update_periphery_hull_only(w, g) ==
    LET vals == VertexValues(w.gs[g])
    IN  AssignNewPeriphery(w, g,
            HullIds([i \in 1..Len(vals) |-> <<vals[i].x, vals[i].y, vals[i].id>>]))

\* PlanarGraph.update_periphery
update_periphery(w, g) ==
    LET G == w.gs[g]
        vals == VertexValues(G)
    IN  IF Len(vals) < 3 THEN AssignNewPeriphery(w, g, G.vorder)
        ELSE AssignNewPeriphery(w, g,
                 HullIds([i \in 1..Len(vals) |-> <<vals[i].x, vals[i].y, vals[i].id>>]))

\* get_periphery_segment without the branch for start_idx > end_idx
get_periphery_segment_no_wrap(w, g, start_id, end_id) ==
    LET periphery == Periphery(w, g)
        start_idx == IndexOf(periphery, start_id)
        end_idx == IndexOf(periphery, end_id)
    IN  IF start_idx = 0 \/ end_idx = 0 THEN <<>>
        ELSE Slice(periphery, start_idx, end_idx)

\* PlanarGraph.get_periphery_segment
get_periphery_segment(w, g, start_id, end_id) ==
    LET periphery == Periphery(w, g)
        start_idx == IndexOf(periphery, start_id)
        end_idx == IndexOf(periphery, end_id)
    IN  IF start_idx = 0 \/ end_idx = 0 THEN <<>>
        ELSE IF start_idx <= end_idx THEN Slice(periphery, start_idx, end_idx)
        ELSE Slice(periphery, start_idx, Len(periphery)) \o Slice(periphery, 1, end_idx)

\* PlanarGraph.clear without self.next_vertex_id = 1
clear_keep_next_id(w, g) ==
    LET G == w.gs[g]
    IN  [gs |-> [w.gs EXCEPT ![g] = [G EXCEPT !.vertices = <<>>, !.vorder = <<>>,
                                               !.edges = {}, !.adjacency = <<>>]],
         hp |-> [w.hp EXCEPT ![G.periphery] = <<>>]]

\* PlanarGraph.clear: the four containers are emptied in place
clear(w, g) ==
    LET G == w.gs[g]
    IN  [gs |-> [w.gs EXCEPT ![g] = [G EXCEPT !.vertices = <<>>, !.vorder = <<>>,
                                               !.edges = {}, !.adjacency = <<>>,
                                               !.next_vertex_id = 1]],
         hp |-> [w.hp EXCEPT ![G.periphery] = <<>>]]

-----------------------------------------------------------------------------
(* Fixed-point trigonometry *)

\* cos and sin of i * 2 * pi / 3, in 1/Scale
CosThird(i) == IF i = 0 THEN Scale ELSE -(Scale \div 2)

SinThird(i) == IF i = 0 THEN 0 ELSE IF i = 1 THEN 8660 ELSE -8660

CenterX == 400

CenterY == 300

Radius == 100

RECURSIVE AddTriangleVertices(_, _, _)
\* for i in range(3): self.add_vertex(center + radius * (cos, sin)(i * 2 * pi / 3), 1)
AddTriangleVertices(w, g, i) ==
    IF i = 3 THEN w
    ELSE LET w1 == add_vertex(w, g,
                       CenterX * Unit + RoundDiv(Radius * Unit * CosThird(i), Scale),
                       CenterY * Unit + RoundDiv(Radius * Unit * SinThird(i), Scale),
                       1).w
         IN  Strict(w1, AddTriangleVertices(w1, g, i + 1))

\* PlanarGraph.create_initial_triangle
create_initial_triangle(w, g) ==
    LET w1 == AddTriangleVertices(clear(w, g), g, 0)
        w2 == add_edge(w1, g, 1, 2).w
        w3 == add_edge(w2, g, 2, 3).w
        w4 == add_edge(w3, g, 3, 1).w
    IN  Strict(w1, Strict(w2, Strict(w3, Strict(w4, update_periphery(w4, g)))))

-----------------------------------------------------------------------------
(* geometry.py: GeometryEngine *)

\* self.min_angle = math.radians(60): its cosine, in 1/Scale
CosMinAngle == 5000

\* cos and sin of min_angle / 4, in 1/Scale
CosRotation == 9659

SinRotation == 2588

\* self.edge_length_tolerance = 0.2, as 1 / ToleranceInverse
ToleranceInverse == 5

\* self.vertex_separation
VertexSeparation == 20

\* avg_edge_length = 80 when the graph has no edge
DefaultEdgeLength == 80

\* adjustment = 10 pixels in _adjust_for_convexity
ConvexityAdjustment == 10

\* for iteration in range(3) in _adjust_edge_lengths
LengthIterations == 3

Dot(u, v) == u[1] * v[1] + u[2] * v[2]

\* GeometryEngine._cross_product_2d
Cross2d(u, v) == u[1] * v[2] - u[2] * v[1]

\* np.linalg.norm
Norm(u) == Sqrt(u[1] * u[1] + u[2] * u[2])

\* u / n, in 1/Scale
Scaled(u, n) == <<RoundDiv(u[1] * Scale, n), RoundDiv(u[2] * Scale, n)>>

\* v / np.linalg.norm(v), in 1/Scale; v is not the zero vector
Normalize(u) == Scaled(u, Norm(u))

\* point + direction * length, direction in 1/Scale
Along(x, y, dir, length) ==
    <<x + RoundDiv(dir[1] * length, Scale), y + RoundDiv(dir[2] * length, Scale)>>

MoveVertex(G, id, pos) == [G EXCEPT !.vertices[id].x = pos[1], !.vertices[id].y = pos[2]]

\* some edge names a vertex the graph does not have: graph.vertices[...] raises
Dangling(G) ==
    \E e \in G.edges : e[1] \notin DOMAIN G.vertices \/ e[2] \notin DOMAIN G.vertices

RECURSIVE TotalLength(_, _)
TotalLength(G, E) ==
    IF E = {} THEN 0
    ELSE LET e == CHOOSE e \in E : TRUE
         IN  DistanceTo(G.vertices[e[1]], G.vertices[e[2]]) + TotalLength(G, E \ {e})

\* GeometryEngine._calculate_average_edge_length, on a graph with no dangling edge
calculate_average_edge_length(G) ==
    IF G.edges = {} THEN 0 ELSE RoundDiv(TotalLength(G, G.edges), Cardinality(G.edges))

\* GeometryEngine._calculate_graph_center
calculate_graph_center(G) ==
    LET vals == VertexValues(G)
        n == Len(vals)
    IN  IF n = 0 THEN <<0, 0>>
        ELSE <<RoundDiv(SumOver([i \in 1..n |-> vals[i].x], n), n),
               RoundDiv(SumOver([i \in 1..n |-> vals[i].y], n), n)>>

RECURSIVE EnsureSeparationFrom(_, _, _)
\* the loop of _ensure_vertex_separation from the i-th vertex on
EnsureSeparationFrom(vals, i, pos) ==
    IF i > Len(vals) THEN pos
    ELSE LET d == <<pos[1] - vals[i].x, pos[2] - vals[i].y>>
         IN  IF Norm(d) < VertexSeparation * Unit /\ d # <<0, 0>>
             THEN LET moved == Along(vals[i].x, vals[i].y, Normalize(d),
                                     VertexSeparation * Unit)
                  IN  Strict(moved, EnsureSeparationFrom(vals, i + 1, moved))
             ELSE EnsureSeparationFrom(vals, i + 1, pos)

\* GeometryEngine._ensure_vertex_separation
ensure_vertex_separation(G, pos) == EnsureSeparationFrom(VertexValues(G), 1, pos)

\* calculate_vertex_position when only an empty segment is refused
calculate_vertex_position_one_enough(w, g, periphery_start, periphery_end) ==
    LET segment == get_periphery_segment(w, g, periphery_start, periphery_end)
    IN  IF Len(segment) < 1 THEN [err |-> "ValueError", pos |-> <<0, 0>>]
        ELSE [err |-> NoErr, pos |-> <<w.gs[g].vertices[segment[1]].x,
                                       w.gs[g].vertices[segment[1]].y>>]

\* GeometryEngine.calculate_vertex_position: [err, pos]
calculate_vertex_position(w, g, periphery_start, periphery_end) ==
    LET G == w.gs[g]
        segment == get_periphery_segment(w, g, periphery_start, periphery_end)
        n == Len(segment)
    IN  IF n < 2 THEN [err |-> "ValueError", pos |-> <<0, 0>>]
        ELSE IF \E i \in 1..n : segment[i] \notin DOMAIN G.vertices
        THEN [err |-> "KeyError", pos |-> <<0, 0>>]
        ELSE IF Dangling(G) THEN [err |-> "KeyError", pos |-> <<0, 0>>]
        ELSE
          LET centroid_x == RoundDiv(SumOver([i \in 1..n |-> G.vertices[segment[i]].x], n), n)
              centroid_y == RoundDiv(SumOver([i \in 1..n |-> G.vertices[segment[i]].y], n), n)
              avg == calculate_average_edge_length(G)
              avg_edge_length == IF avg = 0 THEN DefaultEdgeLength * Unit ELSE avg
              start_vertex == G.vertices[periphery_start]
              end_vertex == G.vertices[periphery_end]
              segment_vector == <<end_vertex.x - start_vertex.x, end_vertex.y - start_vertex.y>>
              perpendicular0 ==
                  IF segment_vector # <<0, 0>>
                  THEN LET u == Normalize(segment_vector) IN <<-u[2], u[1]>>
                  ELSE <<0, Scale>>
              graph_center == calculate_graph_center(G)
              to_center == <<graph_center[1] - centroid_x, graph_center[2] - centroid_y>>
              perpendicular ==
                  IF Dot(perpendicular0, to_center) > 0
                  THEN <<-perpendicular0[1], -perpendicular0[2]>>
                  ELSE perpendicular0
              distance == RoundDiv(avg_edge_length * 11, 10)
          IN  [err |-> NoErr,
               pos |-> ensure_vertex_separation(G,
                           Along(centroid_x, centroid_y, perpendicular, distance))]

\* GeometryEngine.calculate_random_vertex_position: every result it can have,
\* [err, pos, periphery_start, periphery_end], one for each start_idx
calculate_random_vertex_position(w, g) ==
    LET periphery == Periphery(w, g)
        n == Len(periphery)
    IN  IF n < 2
        THEN {[err |-> "ValueError", pos |-> <<0, 0>>, periphery_start |-> 0,
               periphery_end |-> 0]}
        ELSE {[periphery_start |-> periphery[start_idx],
               periphery_end |-> periphery[(start_idx % n) + 1]]
                @@ calculate_vertex_position(w, g, periphery[start_idx],
                                             periphery[(start_idx % n) + 1]) :
                start_idx \in 1..n}

(* Angles.  math.atan2 is not computed: two directions are compared by the *)
(* half plane they lie in and the sign of their cross product, which       *)
(* orders them as atan2 does, and an angle is compared with min_angle by   *)
(* its cosine.                                                             *)

\* atan2(0, 0) is 0, the angle of (1, 0)
Direction(u) == IF u = <<0, 0>> THEN <<1, 0>> ELSE u

\* where atan2 falls: 0 in (-pi, 0), 1 at 0, 2 in (0, pi), 3 at pi
AngleClass(u) ==
    IF u[2] < 0 THEN 0
    ELSE IF u[2] > 0 THEN 2
    ELSE IF u[1] >= 0 THEN 1 ELSE 3

AngleEq(u, v) ==
    /\ AngleClass(u) = AngleClass(v)
    /\ Cross2d(Direction(u), Direction(v)) = 0

AngleLess(u, v) ==
    \/ AngleClass(u) < AngleClass(v)
    \/ AngleClass(u) = AngleClass(v) /\ Cross2d(Direction(u), Direction(v)) > 0

\* the cosine, in 1/Scale, of an angle with dot product dot and norm product nn
Cosine(dot, nn) ==
    IF nn <= 200000 THEN RoundDiv(dot * Scale, nn)
    ELSE IF nn <= 20000000 THEN RoundDiv(dot * 100, RoundDiv(nn, 100))
    ELSE RoundDiv(dot, RoundDiv(nn, Scale))

\* angle_diff < self.min_angle, for the angles of u (curr) and v (next), where
\* angle_diff = atan2(v) - atan2(u), plus 2 * pi when negative
AngleDiffBelowMin(u, v) ==
    LET a == Direction(u)
        b == Direction(v)
    IN  \/ AngleEq(u, v)
        \/ /\ Cross2d(a, b) > 0
           /\ Cosine(Dot(a, b), Norm(a) * Norm(b)) > CosMinAngle

\* GeometryEngine._adjust_for_minimum_angle
adjust_for_minimum_angle(G, center_id, neighbor1_id, neighbor2_id) ==
    LET center == G.vertices[center_id]
        n1 == G.vertices[neighbor1_id]
        n2 == G.vertices[neighbor2_id]
        v1 == <<n1.x - center.x, n1.y - center.y>>
        v2 == <<n2.x - center.x, n2.y - center.y>>
    IN  IF v1 # <<0, 0>> /\ v2 # <<0, 0>>
        THEN LET u1 == Normalize(v1)
                 u2 == Normalize(v2)
                 v1_rot == <<RoundDiv(u1[1] * CosRotation + u1[2] * SinRotation, Scale),
                             RoundDiv(u1[2] * CosRotation - u1[1] * SinRotation, Scale)>>
                 v2_rot == <<RoundDiv(u2[1] * CosRotation - u2[2] * SinRotation, Scale),
                             RoundDiv(u2[1] * SinRotation + u2[2] * CosRotation, Scale)>>
                 avg_dist == RoundDiv(Norm(v1) + Norm(v2), 2)
                 G1 == MoveVertex(G, neighbor1_id, Along(center.x, center.y, v1_rot, avg_dist))
             IN  MoveVertex(G1, neighbor2_id, Along(center.x, center.y, v2_rot, avg_dist))
        ELSE G

RECURSIVE SortByAngle(_, _)
\* angles.sort() of the (angle, neighbor_id) pairs; vec[id] is the direction to id
SortByAngle(S, vec) ==
    IF S = {} THEN <<>>
    ELSE LET m == CHOOSE a \in S : \A b \in S \ {a} :
                     \/ AngleLess(vec[a], vec[b])
                     \/ AngleEq(vec[a], vec[b]) /\ a < b
         IN  <<m>> \o SortByAngle(S \ {m}, vec)

RECURSIVE AdjustSharpAngles(_, _, _, _, _)
\* the loop "for i in range(len(angles))" of _rebalance_angular_spacing: the
\* angles are those computed before the loop
AdjustSharpAngles(G, vertex_id, sorted, vec, i) ==
    IF i > Len(sorted) THEN G
    ELSE LET j == (i % Len(sorted)) + 1
             G1 == IF AngleDiffBelowMin(vec[sorted[i]], vec[sorted[j]])
                   THEN adjust_for_minimum_angle(G, vertex_id, sorted[i], sorted[j])
                   ELSE G
         IN  Strict(G1, AdjustSharpAngles(G1, vertex_id, sorted, vec, i + 1))

RECURSIVE RebalanceFrom(_, _)
\* _rebalance_angular_spacing from the k-th vertex of the dict on: [G, err]
RebalanceFrom(G, k) ==
    IF k > Len(G.vorder) THEN [G |-> G, err |-> NoErr]
    ELSE LET vertex_id == G.vorder[k]
             vertex == G.vertices[vertex_id]
             neighbors == get_neighbors(G, vertex_id)
         IN  IF Cardinality(neighbors) < 2 THEN RebalanceFrom(G, k + 1)
             ELSE IF ~(neighbors \subseteq DOMAIN G.vertices)
             THEN [G |-> G, err |-> "KeyError"]
             ELSE LET vec == [n \in neighbors |->
                                <<G.vertices[n].x - vertex.x, G.vertices[n].y - vertex.y>>]
                      sorted == SortByAngle(neighbors, vec)
                      G1 == AdjustSharpAngles(G, vertex_id, sorted, vec, 1)
                  IN  Strict(vec, Strict(sorted, Strict(G1, RebalanceFrom(G1, k + 1))))

\* GeometryEngine._rebalance_angular_spacing
rebalance_angular_spacing(G) == RebalanceFrom(G, 1)

\* abs(length_ratio - 1.0) > self.edge_length_tolerance
OutOfTolerance(current_length, target_length) ==
    Abs(current_length - target_length) * ToleranceInverse > target_length

\* the body of the edge loop of _adjust_edge_lengths
AdjustEdge(G, e, target_length) ==
    LET v1 == G.vertices[e[1]]
        v2 == G.vertices[e[2]]
        direction == <<v2.x - v1.x, v2.y - v1.y>>
    IN  IF OutOfTolerance(DistanceTo(v1, v2), target_length) /\ direction # <<0, 0>>
        THEN LET center_x == RoundDiv(v1.x + v2.x, 2)
                 center_y == RoundDiv(v1.y + v2.y, 2)
                 u == Normalize(direction)
                 hx == RoundDiv(u[1] * target_length, 2 * Scale)
                 hy == RoundDiv(u[2] * target_length, 2 * Scale)
                 G1 == MoveVertex(G, e[1], <<center_x - hx, center_y - hy>>)
             IN  MoveVertex(G1, e[2], <<center_x + hx, center_y + hy>>)
        ELSE G

RECURSIVE AdjustEdgesInOrder(_, _, _)
AdjustEdgesInOrder(G, order, target_length) ==
    IF order = <<>> THEN G
    ELSE LET G1 == AdjustEdge(G, Head(order), target_length)
         IN  Strict(G1, AdjustEdgesInOrder(G1, Tail(order), target_length))

RECURSIVE AdjustIterations(_, _, _, _)
AdjustIterations(G, order, target_length, iterations) ==
    IF iterations = 0 THEN G
    ELSE LET G1 == AdjustEdgesInOrder(G, order, target_length)
         IN  Strict(G1, AdjustIterations(G1, order, target_length, iterations - 1))

\* GeometryEngine._adjust_edge_lengths on a graph with no dangling edge;
\* order is the order in which graph.edges iterates
adjust_edge_lengths(G, order) ==
    LET target_length == calculate_average_edge_length(G)
    IN  IF target_length = 0 THEN G
        ELSE AdjustIterations(G, order, target_length, LengthIterations)

\* GeometryEngine._adjust_for_convexity
adjust_for_convexity(G, curr_id) ==
    LET curr_vertex == G.vertices[curr_id]
        center == calculate_graph_center(G)
        to_curr == <<curr_vertex.x - center[1], curr_vertex.y - center[2]>>
    IN  IF to_curr # <<0, 0>>
        THEN MoveVertex(G, curr_id,
                 Along(curr_vertex.x, curr_vertex.y, Normalize(to_curr),
                       ConvexityAdjustment * Unit))
        ELSE G

RECURSIVE ConvexFrom(_, _, _)
\* the loop of _maintain_convex_contour from index i on (1-based)
ConvexFrom(G, periphery, i) ==
    IF i > Len(periphery) THEN G
    ELSE LET n == Len(periphery)
             prev == G.vertices[periphery[IF i = 1 THEN n ELSE i - 1]]
             curr == G.vertices[periphery[i]]
             next == G.vertices[periphery[(i % n) + 1]]
             u == <<FloatRound(curr.x - prev.x, 1), FloatRound(curr.y - prev.y, 1)>>
             v == <<FloatRound(next.x - curr.x, 1), FloatRound(next.y - curr.y, 1)>>
             \* _cross_product_2d(u, v), every product a float
             cross == FloatRound(FloatRound(u[1] * v[2], 1) - FloatRound(u[2] * v[1], 1), 1)
             G1 == IF cross < 0 THEN adjust_for_convexity(G, periphery[i]) ELSE G
         IN  Strict(G1, ConvexFrom(G1, periphery, i + 1))

\* GeometryEngine._maintain_convex_contour
maintain_convex_contour(G, periphery) ==
    IF Len(periphery) < 3 THEN G ELSE ConvexFrom(G, periphery, 1)

\* GeometryEngine._update_vertex_diameters
update_vertex_diameters(G) ==
    [G EXCEPT !.vertices = [k \in DOMAIN G.vertices |->
                              [G.vertices[k] EXCEPT !.diameter = CalculateDiameter(G.vertices[k].id)]]]

\* the orders of the edge set that _adjust_edge_lengths can tell apart: when
\* no edge is out of tolerance no edge is moved, whatever the order
EdgeOrders(G) ==
    IF \A e \in G.edges :
          ~OutOfTolerance(DistanceTo(G.vertices[e[1]], G.vertices[e[2]]),
                          calculate_average_edge_length(G))
    THEN {CHOOSE o \in SeqsOf(G.edges) : TRUE}
    ELSE SeqsOf(G.edges)

\* FinishRedraw with the periphery recomputed again before the convexity step
FinishRedrawFreshPeriphery(w, g, G2, order) ==
    LET w3 == update_periphery(SetGraph(w, g, adjust_edge_lengths(G2, order)), g)
    IN  Result(SetGraph(w3, g,
                 update_vertex_diameters(
                   maintain_convex_contour(w3.gs[g], Periphery(w3, g)))),
               NoErr, TRUE)

\* the steps of apply_redraw_logic after the angular rebalance, for one order of
\* the edge set
FinishRedraw(w, g, G2, order) ==
    Result(SetGraph(w, g,
             update_vertex_diameters(
               maintain_convex_contour(adjust_edge_lengths(G2, order), Periphery(w, g)))),
           NoErr, TRUE)

\* apply_redraw_logic after _rebalance_angular_spacing gave r2 = [G, err]; the
\* average edge length raises KeyError at a dangling edge
RedrawRebalanced(w1, g, r2) ==
    IF r2.err # NoErr THEN {Result(SetGraph(w1, g, r2.G), r2.err, FALSE)}
    ELSE IF Dangling(r2.G) THEN {Result(SetGraph(w1, g, r2.G), "KeyError", FALSE)}
    ELSE {FinishRedraw(w1, g, r2.G, order) : order \in EdgeOrders(r2.G)}

\* apply_redraw_logic after update_periphery left world w1
RedrawRecomputed(w1, g) ==
    Strict(w1, RedrawRebalanced(w1, g, rebalance_angular_spacing(w1.gs[g])))

\* GeometryEngine.apply_redraw_logic: the results it can have, one for each
\* order in which graph.edges can iterate
apply_redraw_logic(w, g) ==
    IF Len(w.gs[g].vorder) < 3 THEN {Result(w, NoErr, TRUE)}
    ELSE RedrawRecomputed(update_periphery(w, g), g)

-----------------------------------------------------------------------------
(* commands.py: CommandProcessor.  A command catches every exception and   *)
(* returns False; its result is [w, err (the exception caught, or ""),     *)
(* ret (the boolean returned), a, b (the anchors)].                        *)

\* random.randint(1, 4) in _get_random_color_index
MaxColorIndex == 4

\* the colors followed: the two ends of the range
Colors == {1, MaxColorIndex}

Outcome(w, err, ret, a, b) == [w |-> w, err |-> err, ret |-> ret, a |-> a, b |-> b]

\* the loop over the segment, stopping after its first vertex
ConnectFirstOnly(w, g, vertex_id, segment) ==
    IF segment = <<>> THEN Result(w, NoErr, TRUE)
    ELSE add_edge(w, g, vertex_id, Head(segment))

RECURSIVE ConnectSegment(_, _, _, _)
\* for seg_vertex_id in segment: self.graph.add_edge(vertex_id, seg_vertex_id)
ConnectSegment(w, g, vertex_id, segment) ==
    IF segment = <<>> THEN Result(w, NoErr, TRUE)
    ELSE LET r == add_edge(w, g, vertex_id, Head(segment))
         IN  IF r.err # NoErr THEN r
             ELSE ConnectSegment(r.w, g, vertex_id, Tail(segment))

\* "Connect to periphery segment", after add_vertex returned r1
ConnectNew(g, periphery_start, periphery_end, r1) ==
    ConnectSegment(r1.w, g, r1.ret,
                   get_periphery_segment(r1.w, g, periphery_start, periphery_end))

\* "Apply redraw logic" and the return, after the edges were added with result r2
RedrawConnected(g, periphery_start, periphery_end, r2) ==
    IF r2.err # NoErr
    THEN {Outcome(r2.w, r2.err, FALSE, periphery_start, periphery_end)}
    ELSE {Outcome(r3.w, r3.err, r3.err = NoErr, periphery_start, periphery_end) :
             r3 \in apply_redraw_logic(r2.w, g)}

\* the insertion at the position p = [err, pos] that calculate_vertex_position gave
InsertAt(w, g, periphery_start, periphery_end, p) ==
    IF p.err # NoErr THEN {Outcome(w, p.err, FALSE, periphery_start, periphery_end)}
    ELSE UNION {
      RedrawConnected(g, periphery_start, periphery_end,
          ConnectNew(g, periphery_start, periphery_end,
                     add_vertex(w, g, p.pos[1], p.pos[2], color_index)))
      : color_index \in Colors}

\* the part the two insertion commands share, from "Calculate position" to
\* "return True", for the anchors given
InsertBetween(w, g, periphery_start, periphery_end) ==
    InsertAt(w, g, periphery_start, periphery_end,
             calculate_vertex_position(w, g, periphery_start, periphery_end))

\* CommandProcessor._are_periphery_adjacent
are_periphery_adjacent(w, g, v1_id, v2_id) ==
    LET periphery == Periphery(w, g)
        idx1 == IndexOf(periphery, v1_id)
        idx2 == IndexOf(periphery, v2_id)
    IN  /\ idx1 # 0
        /\ idx2 # 0
        /\ \/ Abs(idx1 - idx2) = 1
           \/ Abs(idx1 - idx2) = Len(periphery) - 1

\* CommandProcessor.add_random_vertex (with calculate_random_vertex_position):
\* every result it can have
add_random_vertex(w, g) ==
    LET periphery == Periphery(w, g)
        n == Len(periphery)
    IN  IF n < 2 THEN {Outcome(w, NoErr, FALSE, 0, 0)}
        ELSE UNION {InsertBetween(w, g, periphery[start_idx], periphery[(start_idx % n) + 1]) :
                      start_idx \in 1..n}

\* CommandProcessor.add_manual_vertex: every result it can have
add_manual_vertex(w, g, periphery_start, periphery_end) ==
    LET periphery == Periphery(w, g)
    IN  IF periphery_start \notin Range(periphery)
        THEN {Outcome(w, NoErr, FALSE, periphery_start, periphery_end)}
        ELSE IF periphery_end \notin Range(periphery)
        THEN {Outcome(w, NoErr, FALSE, periphery_start, periphery_end)}
        ELSE IF ~are_periphery_adjacent(w, g, periphery_start, periphery_end)
        THEN {Outcome(w, NoErr, FALSE, periphery_start, periphery_end)}
        ELSE InsertBetween(w, g, periphery_start, periphery_end)

-----------------------------------------------------------------------------
(* Snapshot documents: PlanarGraph.to_dict, PlanarGraph.from_dict.         *)
(* A document is [has |-> the top-level fields it carries, vertices,       *)
(* vkeys (the order of its vertex keys), edges (a list of <<v1_id, v2_id>>)*)
(* periphery (a reference to a list), next_vertex_id].                     *)

AllFields == {"vertices", "edges", "periphery", "next_vertex_id"}

\* to_dict when the document's next id is the number of vertices plus 1
to_dict_counted_next_id(G, edge_order) ==
    [has |-> AllFields, vertices |-> G.vertices, vkeys |-> G.vorder,
     edges |-> edge_order, periphery |-> G.periphery,
     next_vertex_id |-> Len(G.vorder) + 1]

\* PlanarGraph.to_dict; edge_order is the order in which the edge set iterates.
\* The vertex dicts and the edge list are new objects, the periphery is the
\* graph's own list.
to_dict(G, edge_order) ==
    [has |-> AllFields, vertices |-> G.vertices, vkeys |-> G.vorder,
     edges |-> edge_order, periphery |-> G.periphery,
     next_vertex_id |-> G.next_vertex_id]

RECURSIVE LoadEdges(_, _, _)
\* the loop "for edge_data in data['edges']" of from_dict
LoadEdges(w, g, edge_list) ==
    IF edge_list = <<>> THEN Result(w, NoErr, TRUE)
    ELSE LET G == w.gs[g]
             e == Edge(Head(edge_list)[1], Head(edge_list)[2])
             G1 == [G EXCEPT !.edges = @ \cup {e}]
         IN  IF e[1] \notin DOMAIN G.adjacency
             THEN Result(SetGraph(w, g, G1), "KeyError", FALSE)
             ELSE LET G2 == [G1 EXCEPT !.adjacency[e[1]] = @ \cup {e[2]}]
                  IN  IF e[2] \notin DOMAIN G.adjacency
                      THEN Result(SetGraph(w, g, G2), "KeyError", FALSE)
                      ELSE LET w1 == SetGraph(w, g,
                                         [G2 EXCEPT !.adjacency[e[2]] = @ \cup {e[1]}])
                           IN  Strict(w1, LoadEdges(w1, g, Tail(edge_list)))

\* PlanarGraph.from_dict reading the edges with data.get('edges', [])
from_dict_edges_optional(w, g, data) ==
    LET w1 == clear(w, g)
    IN  IF "vertices" \notin data.has THEN Result(w1, "KeyError", FALSE)
        ELSE
          LET w2 == SetGraph(w1, g,
                      [w1.gs[g] EXCEPT !.vertices = data.vertices,
                                       !.vorder = data.vkeys,
                                       !.adjacency = [k \in DOMAIN data.vertices |-> {}]])
              r3 == LoadEdges(w2, g, IF "edges" \in data.has THEN data.edges ELSE <<>>)
              w4 == IF "periphery" \in data.has
                    THEN [r3.w EXCEPT !.gs[g].periphery = data.periphery]
                    ELSE AssignNewPeriphery(r3.w, g, <<>>)
              next == IF "next_vertex_id" \in data.has THEN data.next_vertex_id
                      ELSE Len(data.vkeys) + 1
          IN  IF r3.err # NoErr THEN r3
              ELSE Result([w4 EXCEPT !.gs[g].next_vertex_id = next], NoErr, TRUE)

\* PlanarGraph.from_dict without self.clear(): the document is loaded over
\* what the graph holds
from_dict_no_clear(w, g, data) ==
    LET old == w.gs[g]
    IN  IF "vertices" \notin data.has THEN Result(w, "KeyError", FALSE)
        ELSE
          LET w2 == SetGraph(w, g,
                      [old EXCEPT !.vertices = [k \in DOMAIN old.vertices \cup DOMAIN data.vertices |->
                                                 IF k \in DOMAIN data.vertices THEN data.vertices[k]
                                                 ELSE old.vertices[k]],
                                  !.vorder = old.vorder \o SelectSeq(data.vkeys,
                                                 LAMBDA k : k \notin DOMAIN old.vertices),
                                  !.adjacency = [k \in DOMAIN old.adjacency \cup DOMAIN data.vertices |->
                                                 IF k \in DOMAIN data.vertices THEN {}
                                                 ELSE old.adjacency[k]]])
          IN  IF "edges" \notin data.has THEN Result(w2, "KeyError", FALSE)
              ELSE
                LET r3 == LoadEdges(w2, g, data.edges)
                    w4 == IF "periphery" \in data.has
                          THEN [r3.w EXCEPT !.gs[g].periphery = data.periphery]
                          ELSE AssignNewPeriphery(r3.w, g, <<>>)
                    next == IF "next_vertex_id" \in data.has THEN data.next_vertex_id
                            ELSE Len(data.vkeys) + 1
                IN  IF r3.err # NoErr THEN r3
                    ELSE Result([w4 EXCEPT !.gs[g].next_vertex_id = next], NoErr, TRUE)

\* PlanarGraph.from_dict
from_dict(w, g, data) ==
    LET w1 == clear(w, g)
    IN  IF "vertices" \notin data.has THEN Result(w1, "KeyError", FALSE)
        ELSE
          LET w2 == SetGraph(w1, g,
                      [w1.gs[g] EXCEPT !.vertices = data.vertices,
                                       !.vorder = data.vkeys,
                                       !.adjacency = [k \in DOMAIN data.vertices |-> {}]])
          IN  IF "edges" \notin data.has THEN Result(w2, "KeyError", FALSE)
              ELSE
                LET r3 == LoadEdges(w2, g, data.edges)
                    w3 == r3.w
                    w4 == IF "periphery" \in data.has
                          THEN [w3 EXCEPT !.gs[g].periphery = data.periphery]
                          ELSE AssignNewPeriphery(w3, g, <<>>)
                    next == IF "next_vertex_id" \in data.has THEN data.next_vertex_id
                            ELSE Len(data.vkeys) + 1
                IN  IF r3.err # NoErr THEN r3
                    ELSE Result([w4 EXCEPT !.gs[g].next_vertex_id = next], NoErr, TRUE)

\* graph.from_dict(json.load(f)): file is a document whose periphery field is
\* the list itself
load_file(w, g, file) ==
    LET r == NewRef(w)
    IN  from_dict([w EXCEPT !.hp[r] = file.periphery], g, [file EXCEPT !.periphery = r])

(* The files a user imports.  FileSaved is what an export of a path of     *)
(* three vertices on a line wrote.  The others were edited by hand:        *)
(* FileDangling has an edge to a vertex it does not define, FileRepeat     *)
(* lists a vertex twice on its periphery, FileAbsent lists on its          *)
(* periphery a vertex it does not define.                                  *)

\* an id no file defines
GhostId == 9

FileVertex(id, x, y) == Vertex(id, x * Unit, y * Unit, 1)

FileSaved ==
    [has |-> AllFields,
     vertices |-> <<FileVertex(1, 300, 300), FileVertex(2, 400, 300), FileVertex(3, 500, 300)>>,
     vkeys |-> <<1, 2, 3>>, edges |-> <<<<1, 2>>, <<2, 3>>>>,
     periphery |-> <<1, 3>>, next_vertex_id |-> 4]

FileDangling ==
    [has |-> AllFields,
     vertices |-> [id \in {2, 3} |-> IF id = 2 THEN FileVertex(2, 500, 300)
                                              ELSE FileVertex(3, 400, 400)],
     vkeys |-> <<2, 3>>, edges |-> <<<<3, 2>>, <<3, GhostId>>>>,
     periphery |-> <<2, 3>>, next_vertex_id |-> 4]

FileRepeat ==
    [has |-> AllFields,
     vertices |-> <<FileVertex(1, 300, 300), FileVertex(2, 500, 300)>>,
     vkeys |-> <<1, 2>>, edges |-> <<<<1, 2>>>>,
     periphery |-> <<1, 2, 1>>, next_vertex_id |-> 3]

FileAbsent ==
    [has |-> AllFields,
     vertices |-> <<FileVertex(1, 300, 300), FileVertex(2, 500, 300)>>,
     vkeys |-> <<1, 2>>, edges |-> <<>>,
     periphery |-> <<1, 2, 3>>, next_vertex_id |-> 3]

Files == <<FileSaved, FileDangling, FileRepeat, FileAbsent>>

-----------------------------------------------------------------------------
(* The state machine *)

World == [gs |-> graph, hp |-> heap]

\* what the last call was and how it ended: a and b are the anchors of an
\* insertion (0 for the other calls), ok is "returned, and not False"
Op(op, g, a, b, ok, err) == [op |-> op, g |-> g, a |-> a, b |-> b, ok |-> ok, err |-> err]

(* References are names of objects, and which name a list has is not part  *)
(* of the program's state: after each call g1's list is renamed "L1" and   *)
(* g2's "L2" ("L1" if the two graphs share it), and the lists no graph     *)
(* holds are dropped.                                                      *)

NameOfG2(gs) == IF gs["g2"].periphery = gs["g1"].periphery THEN "L1" ELSE "L2"

RenamedGraphs(gs) ==
    [g \in Graphs |->
        [gs[g] EXCEPT !.periphery = IF g = "g1" THEN "L1" ELSE NameOfG2(gs)]]

Collect(gs, hp) ==
    [r \in Refs |->
        IF r = "L1" THEN hp[gs["g1"].periphery]
        ELSE IF r = "L2" /\ NameOfG2(gs) = "L2" THEN hp[gs["g2"].periphery]
        ELSE <<>>]

\* the state after a call that leaves world w; relaxed: the call may have run
\* a relaxation pass
BecomesWith(w, op, relaxed) ==
    /\ graph' = RenamedGraphs(w.gs)
    /\ heap' = Collect(w.gs, w.hp)
    /\ lastOp' = op
    /\ passes' = IF relaxed /\ RenamedGraphs(w.gs) # graph THEN passes + 1 ELSE passes

Becomes(w, op) == BecomesWith(w, op, FALSE)

BecomesRelaxed(w, op) == BecomesWith(w, op, TRUE)

Init ==
    /\ graph = [g \in Graphs |-> EmptyGraph(IF g = "g1" THEN "L1" ELSE "L2")]
    /\ heap = [r \in Refs |-> <<>>]
    /\ lastOp = Op("init", "g1", 0, 0, TRUE, NoErr)
    /\ passes = 0

\* the ids a caller passes: those of the vertices of a triangle
Ids == 1..3

AddVertex(g) ==
    /\ passes < MaxPasses
    /\ graph[g].next_vertex_id <= MaxVertexId
    /\ \E p \in InputPoints :
         LET r == add_vertex(World, g, p[1] * Unit, p[2] * Unit, 1)
         IN  Becomes(r.w, Op("addVertex", g, 0, 0, TRUE, NoErr))

AddEdge(g) ==
    /\ passes < MaxPasses
    /\ \E a \in Ids, b \in Ids :
       LET r == add_edge(World, g, a, b)
       IN  Becomes(r.w, Op("addEdge", g, 0, 0, r.ret, r.err))

RemoveVertex(g) ==
    /\ passes < MaxPasses
    /\ \E id \in Ids :
       \E r \in remove_vertex_outcomes(World, g, id) :
          Becomes(r.w, Op("removeVertex", g, 0, 0, r.ret, r.err))

UpdatePeriphery(g) ==
    /\ passes < MaxPasses
    /\ Becomes(update_periphery(World, g), Op("updatePeriphery", g, 0, 0, TRUE, NoErr))

Clear(g) ==
    /\ passes < MaxPasses
    /\ Becomes(clear(World, g), Op("clear", g, 0, 0, TRUE, NoErr))

CreateInitialTriangle(g) ==
    /\ passes < MaxPasses
    /\ Becomes(create_initial_triangle(World, g),
            Op("createInitialTriangle", g, 0, 0, TRUE, NoErr))

\* import from a file: a is the position of the file in Files
LoadSnapshot(g) ==
    /\ passes < MaxPasses
    /\ \E i \in 1..Len(Files) :
       LET r == load_file(World, g, Files[i])
       IN  Becomes(r.w, Op("importSnapshot", g, i, 0, r.err = NoErr, r.err))

AddRandomVertex(g) ==
    /\ passes < MaxPasses
    /\ \E r \in add_random_vertex(World, g) :
          BecomesRelaxed(r.w, Op("addRandomVertex", g, r.a, r.b, r.ret, r.err))

AddManualVertex(g) ==
    /\ passes < MaxPasses
    /\ \E s \in Ids, e \in Ids :
          \E r \in add_manual_vertex(World, g, s, e) :
             BecomesRelaxed(r.w, Op("addManualVertex", g, s, e, r.ret, r.err))

ApplyRedraw(g) ==
    /\ passes < MaxPasses
    /\ \E r \in apply_redraw_logic(World, g) :
          BecomesRelaxed(r.w, Op("applyRedraw", g, 0, 0, r.err = NoErr, r.err))

Next ==
    \/ AddRandomVertex("g1")
    \/ AddManualVertex("g1")
    \/ ApplyRedraw("g1")
    \/ AddVertex("g1")
    \/ AddEdge("g1")
    \/ RemoveVertex("g1")
    \/ UpdatePeriphery("g1")
    \/ Clear("g1")
    \/ CreateInitialTriangle("g1")
    \/ LoadSnapshot("g1")

Spec == Init /\ [][Next]_vars

\* import of a document that carries only the fields has of the i-th file;
\* lastOp.a is i and lastOp.b is has
ImportDocument(g) ==
    /\ passes < MaxPasses
    /\ \E i \in 1..Len(Files), has \in SUBSET AllFields :
       LET r == load_file(World, g, [Files[i] EXCEPT !.has = has])
       IN  Becomes(r.w, Op("importDocument", g, i, has, r.err = NoErr, r.err))

NextImport ==
    \/ ImportDocument("g1")
    \/ ImportDocument("g2")

\* two graphs that import documents, complete or not
SpecImport == Init /\ [][NextImport]_vars

-----------------------------------------------------------------------------
(* Properties *)

\* every id a graph mentions
IdsOf(G) ==
    DOMAIN G.vertices \cup DOMAIN G.adjacency
      \cup UNION {G.adjacency[k] : k \in DOMAIN G.adjacency}
      \cup UNION {{e[1], e[2]} : e \in G.edges}

AdjacencySymmetric(G) ==
    \A a \in IdsOf(G), b \in IdsOf(G) :
       /\ (Edge(a, b) \in G.edges) <=> (b \in get_neighbors(G, a))
       /\ (b \in get_neighbors(G, a)) <=> (a \in get_neighbors(G, b))

\* C1: in every reachable state, for all ids a and b, the canonical edge
\* {a, b} is in the edge set iff b is in adjacency(a) iff a is in adjacency(b).
C1_AdjacencySymmetry == \A g \in Graphs : AdjacencySymmetric(graph[g])

\* the step is an insertion command that reported failure
FailedInsertion ==
    /\ lastOp'.op \in {"addRandomVertex", "addManualVertex"}
    /\ ~lastOp'.ok

\* the step leaves graph g as it was: vertex map, edge set, adjacency,
\* periphery list and next-id counter
GraphUnchanged(g) ==
    /\ graph'[g] = graph[g]
    /\ heap'[graph'[g].periphery] = heap[graph[g].periphery]

\* C2: whenever addRandomVertex or addManualVertex reports failure, the vertex
\* map, edge set, adjacency, periphery list and next-id counter are what they
\* were before the call.
C2_FailedInsertionUnchanged == [][FailedInsertion => GraphUnchanged(lastOp'.g)]_vars

\* the world after graph h imports what graph g exports, the edge set of g
\* iterating in edge_order
ImportOfExport(g, h, edge_order) == from_dict(World, h, to_dict(graph[g], edge_order))

\* the import ran to its end and h now has the vertices (ids, positions,
\* colors), the edges, the periphery list and the next id that g had
Reproduced(g, h, r) ==
    /\ r.err = NoErr
    /\ r.w.gs[h].vertices = graph[g].vertices
    /\ r.w.gs[h].edges = graph[g].edges
    /\ Periphery(r.w, h) = Periphery(World, g)
    /\ r.w.gs[h].next_vertex_id = graph[g].next_vertex_id

RoundTrip(g, h) ==
    \A edge_order \in SeqsOf(graph[g].edges) :
       Reproduced(g, h, ImportOfExport(g, h, edge_order))

\* C3: importing the export of a graph, into a fresh graph or back into the
\* graph itself, yields the same vertices, edge set, periphery list in the same
\* order and next id.
C3_RoundTrip == RoundTrip("g1", "g2") /\ RoundTrip("g1", "g1")

-----------------------------------------------------------------------------
(* The periphery and the convex hull *)

VertexCount(G) == Cardinality(DOMAIN G.vertices)

\* the position of vertex k
Pos(G, k) == <<G.vertices[k].x, G.vertices[k].y>>

Positions(G) == {Pos(G, k) : k \in DOMAIN G.vertices}

\* twice the signed area of the triangle p, q, r
Area2(p, q, r) == (q[1] - p[1]) * (r[2] - p[2]) - (q[2] - p[2]) * (r[1] - p[1])

\* p lies on the closed segment from q to r
OnSegment(p, q, r) ==
    /\ Area2(q, r, p) = 0
    /\ Min2(q[1], r[1]) <= p[1] /\ p[1] <= Max2(q[1], r[1])
    /\ Min2(q[2], r[2]) <= p[2] /\ p[2] <= Max2(q[2], r[2])

\* p lies in the closed triangle q, r, s, which has an interior
InTriangle(p, q, r, s) ==
    /\ Area2(q, r, s) # 0
    /\ ~ /\ \E d \in {Area2(q, r, p), Area2(r, s, p), Area2(s, q, p)} : d < 0
         /\ \E d \in {Area2(q, r, p), Area2(r, s, p), Area2(s, q, p)} : d > 0

\* p is a corner of the convex hull of pts: it is not in the hull of the others
IsCorner(p, pts) ==
    \A q \in pts \ {p}, r \in pts \ {p} :
       /\ ~OnSegment(p, q, r)
       /\ \A s \in pts \ {p} : ~InTriangle(p, q, r, s)

\* n is a float: no rounding is needed
IsFloat(n) == FloatRound(n, 1) = n

\* the differences of the coordinates of G and the products of an x and a y
\* difference are floats: update_periphery and the convexity step compute
\* their cross products without rounding
CrossesExact(G) ==
    \A p \in Positions(G), q \in Positions(G) :
       /\ IsFloat(q[1] - p[1]) /\ IsFloat(q[2] - p[2])
       /\ \A r \in Positions(G), t \in Positions(G) :
             IsFloat((q[1] - p[1]) * (t[2] - r[2]))

NotAllCollinear(G) ==
    \E p \in Positions(G), q \in Positions(G), r \in Positions(G) : Area2(p, q, r) # 0

\* the list P names the corners of the hull of G's positions, each once, going
\* round in one direction
IsConvexHull(G, P) ==
    /\ \A i \in 1..Len(P) : P[i] \in DOMAIN G.vertices /\ IsCorner(Pos(G, P[i]), Positions(G))
    /\ \A p \in Positions(G) :
          IsCorner(p, Positions(G)) => \E i \in 1..Len(P) : Pos(G, P[i]) = p
    /\ \A i \in 1..Len(P), j \in 1..Len(P) :
          i # j => P[i] # P[j] /\ Pos(G, P[i]) # Pos(G, P[j])
    /\ Len(P) >= 3 =>
          LET turn(i) == Area2(Pos(G, P[i]), Pos(G, P[(i % Len(P)) + 1]),
                               Pos(G, P[((i + 1) % Len(P)) + 1]))
          IN  \/ \A i \in 1..Len(P) : turn(i) > 0
              \/ \A i \in 1..Len(P) : turn(i) < 0

Recomputed(g) ==
    /\ lastOp.op \in {"updatePeriphery", "createInitialTriangle"}
    /\ lastOp.g = g

HullVertices == 4

\* in tenths of a pixel
GridPoints == {<<x * Unit, y * Unit>> : x \in {300, 400, 500}, y \in {300, 400, 500}}

RECURSIVE AddVertices(_, _, _)
\* add_vertex at each point of pts in turn
AddVertices(w, g, pts) ==
    IF pts = <<>> THEN w
    ELSE LET w1 == add_vertex(w, g, Head(pts)[1], Head(pts)[2], 1).w
         IN  Strict(w1, AddVertices(w1, g, Tail(pts)))

EmptyWorld ==
    [gs |-> [g \in Graphs |-> EmptyGraph(IF g = "g1" THEN "L1" ELSE "L2")],
     hp |-> [r \in Refs |-> <<>>]]

InitHull ==
    \E n \in 3..HullVertices :
       \E pts \in [1..n -> GridPoints]
                    \cup [1..n -> {<<14, 2>>, <<1331840, 20>>, <<2441696, 35>>}] :
          /\ graph = AddVertices(EmptyWorld, "g1", pts).gs
          /\ heap = EmptyWorld.hp
          /\ lastOp = Op("addVertex", "g1", 0, 0, TRUE, NoErr)
          /\ passes = 0

NextHull == UpdatePeriphery("g1")

SpecHull == InitHull /\ [][NextHull]_vars

\* the last call was updatePeriphery on a graph of 3 or more vertices
HullRecomputed(g) ==
    /\ lastOp.op = "updatePeriphery"
    /\ lastOp.g = g
    /\ VertexCount(graph[g]) >= 3

\* C5: for any graph with 3 or more vertices, right after updatePeriphery the
\* periphery is exactly the convex hull in one rotational order: every listed
\* id is a hull corner, no corner is omitted, no id is listed twice, vertices
\* inside the hull or on a hull edge are excluded, and of vertices sharing a
\* position at most one is listed.
C5_PeripheryIsHull ==
    \A g \in Graphs : HullRecomputed(g) => IsConvexHull(graph[g], Periphery(World, g))

\* C5, amended: the same, for graphs whose vertices are not all at one
\* position and whose cross products are computed without rounding.
C5_PeripheryIsHullOfDistinct ==
    \A g \in Graphs :
       /\ HullRecomputed(g)
       /\ Cardinality(Positions(graph[g])) >= 2
       /\ CrossesExact(graph[g])
       => IsConvexHull(graph[g], Periphery(World, g))

\* updatePeriphery has returned on four vertices, two of them at one corner
\* of a triangle
C5_Witness ==
    /\ HullRecomputed("g1")
    /\ VertexCount(graph["g1"]) = 4
    /\ Cardinality(Positions(graph["g1"])) = 3
    /\ Len(Periphery(World, "g1")) = 3

\* the last call on g was a relaxation pass over 3 or more vertices that ran
\* to its end: a successful insertion, or applyRedraw
Relaxed(g) ==
    /\ lastOp.g = g
    /\ lastOp.ok
    /\ lastOp.op \in {"addRandomVertex", "addManualVertex", "applyRedraw"}
    /\ VertexCount(graph[g]) >= 3

\* C6: after a successful addRandomVertex or addManualVertex, and after any
\* applyRedraw on 3 or more vertices, the stored periphery is the convex hull
\* of the vertex positions as they are at return.
C6_PeripheryIsHullAtReturn ==
    \A g \in Graphs : Relaxed(g) => IsConvexHull(graph[g], Periphery(World, g))

-----------------------------------------------------------------------------
(* The periphery as a list of vertices *)

\* P lists ids of vertices present in the vertex map vs, none twice
ValidPeriphery(vs, P) ==
    /\ \A i \in 1..Len(P) : P[i] \in DOMAIN vs
    /\ \A i \in 1..Len(P), j \in 1..Len(P) : i # j => P[i] # P[j]

ImportsBadPeriphery ==
    /\ lastOp'.op = "importSnapshot"
    /\ ~ValidPeriphery(Files[lastOp'.a].vertices, Files[lastOp'.a].periphery)

-----------------------------------------------------------------------------
(* Insertions *)

\* s and e are next to each other on the list P taken as a cycle: their
\* (first) positions differ by 1 or by Len(P) - 1
Neighbours(P, s, e) ==
    \E i \in 1..Len(P), j \in 1..Len(P) :
       /\ P[i] = s /\ \A k \in 1..(i - 1) : P[k] # s
       /\ P[j] = e /\ \A k \in 1..(j - 1) : P[k] # e
       /\ Abs(i - j) \in {1, Len(P) - 1}

\* the anchors of addManualVertex are on the periphery P and next to each other
AnchorsAccepted(P, s, e) ==
    /\ s \in Range(P)
    /\ e \in Range(P)
    /\ Neighbours(P, s, e)

\* C8: addManualVertex(s, e) fails without changing the graph if s or e is not
\* on the periphery or the two are not circularly adjacent on it; for every
\* pair that is on the periphery and circularly adjacent, on a periphery of 2
\* or more vertices, it succeeds.
C8_ManualInsertion ==
    [][lastOp'.op = "addManualVertex" =>
         LET P == Periphery(World, lastOp'.g)
         IN  /\ ~AnchorsAccepted(P, lastOp'.a, lastOp'.b)
                  => ~lastOp'.ok /\ GraphUnchanged(lastOp'.g)
             /\ AnchorsAccepted(P, lastOp'.a, lastOp'.b) /\ Len(P) >= 2
                  => lastOp'.ok]_vars

\* the step is an addRandomVertex that reported success
RandomInserted ==
    /\ lastOp'.op = "addRandomVertex"
    /\ lastOp'.ok

\* what C9 says of such a step: one more vertex, as many more edges as the
\* segment between the anchors is long, the anchors two distinct periphery
\* vertices with the end right after the start, the segment of length 2
GrowsBySegment(g, start_id, end_id) ==
    LET P == Periphery(World, g)
        segment == get_periphery_segment(World, g, start_id, end_id)
    IN  /\ VertexCount(graph'[g]) = VertexCount(graph[g]) + 1
        /\ Cardinality(graph'[g].edges) = Cardinality(graph[g].edges) + Len(segment)
        /\ start_id # end_id
        /\ \E i \in 1..Len(P) : P[i] = start_id /\ P[(i % Len(P)) + 1] = end_id
        /\ Len(segment) = 2

\* C9: a successful addRandomVertex on a graph whose periphery has 2 or more
\* vertices adds exactly 1 vertex and as many edges as the segment is long; its
\* anchors are two distinct periphery vertices, the end right after the start
\* circularly, so the segment has length 2.
C9_RandomInsertion ==
    [][RandomInserted /\ Len(Periphery(World, lastOp'.g)) >= 2
          => GrowsBySegment(lastOp'.g, lastOp'.a, lastOp'.b)]_vars

NoRepeats(P) == \A i \in 1..Len(P), j \in 1..Len(P) : i # j => P[i] # P[j]

\* C9, amended: the same, on a periphery that lists no id twice and with a
\* next id that no vertex has.
C9_RandomInsertionNoRepeats ==
    [][RandomInserted /\ Len(Periphery(World, lastOp'.g)) >= 2
                      /\ NoRepeats(Periphery(World, lastOp'.g))
                      /\ graph[lastOp'.g].next_vertex_id \notin DOMAIN graph[lastOp'.g].vertices
          => GrowsBySegment(lastOp'.g, lastOp'.a, lastOp'.b)]_vars

\* addRandomVertex has added vertex 4 and two edges to the initial triangle
C9_Witness ==
    /\ lastOp.op = "addRandomVertex"
    /\ lastOp.ok
    /\ DOMAIN graph["g1"].vertices = 1..4
    /\ Cardinality(graph["g1"].edges) = 5

-----------------------------------------------------------------------------
(* Edges *)

\* the edges of G that join a and b, in whichever order they are stored
EdgesJoining(G, a, b) == {e \in G.edges : {e[1], e[2]} = {a, b}}

\* after add_edge(a, b) a second add_edge(c, d) returns False and changes
\* neither the edge set nor any adjacency set, and one edge joins a and b
SecondAddRejected(g, a, b, c, d) ==
    LET first == add_edge(World, g, a, b)
        second == add_edge(first.w, g, c, d)
    IN  /\ first.err = NoErr
        /\ second.err = NoErr
        /\ ~second.ret
        /\ second.w.gs[g].edges = first.w.gs[g].edges
        /\ second.w.gs[g].adjacency = first.w.gs[g].adjacency
        /\ Cardinality(EdgesJoining(second.w.gs[g], a, b)) = 1

\* C10: for existing vertices a # b, addEdge(a, b) followed by addEdge(a, b) or
\* addEdge(b, a) leaves exactly one edge {a, b}; the second call returns false
\* and changes neither the edge set nor any adjacency set.
C10_EdgeAddedOnce ==
    \A g \in Graphs :
       \A a \in DOMAIN graph[g].vertices, b \in DOMAIN graph[g].vertices :
          a # b => /\ SecondAddRejected(g, a, b, a, b)
                   /\ SecondAddRejected(g, a, b, b, a)

\* addEdge has joined vertices 1 and 2
C10_Witness ==
    /\ lastOp.op = "addEdge"
    /\ lastOp.ok
    /\ {1, 2} \subseteq DOMAIN graph["g1"].vertices
    /\ Edge(1, 2) \in graph["g1"].edges

-----------------------------------------------------------------------------
(* add_edge: the order of its tests, and what it does *)

\* the ids a caller can pass for graph g: those of a triangle and every id the
\* graph mentions
CallerIds(g) == Ids \cup IdsOf(graph[g])

\* add_edge(a, b) returns False, raises nothing and changes nothing
RejectedQuietly(g, a, b) ==
    LET r == add_edge(World, g, a, b)
    IN  r.err = NoErr /\ ~r.ret /\ r.w = World

\* add_edge(a, b) raises the missing-vertex error and changes nothing
RaisesMissingVertex(g, a, b) ==
    LET r == add_edge(World, g, a, b)
    IN  r.err = "ValueError" /\ r.w = World

Missing(g, a, b) == a \notin DOMAIN graph[g].vertices \/ b \notin DOMAIN graph[g].vertices

\* C11: addEdge(a, a) returns false with no mutation and no error for every id
\* a, a vertex or not, and so does addEdge of an edge already present; the
\* missing-vertex error is signalled only in the remaining case.
C11_SelfLoopFirst ==
    \A g \in Graphs : \A a \in CallerIds(g), b \in CallerIds(g) :
       IF a = b \/ Edge(a, b) \in graph[g].edges THEN RejectedQuietly(g, a, b)
       ELSE Missing(g, a, b) => RaisesMissingVertex(g, a, b)

\* C11 (amended): addEdge(a, b) signals the missing-vertex error, with no
\* mutation, whenever a or b is not a vertex, also when a = b or the edge is
\* already present; when both are vertices, addEdge(a, a) and addEdge of an
\* edge already present return false with no mutation and no error.
C11_MissingVertexFirst ==
    \A g \in Graphs : \A a \in CallerIds(g), b \in CallerIds(g) :
       IF Missing(g, a, b) THEN RaisesMissingVertex(g, a, b)
       ELSE (a = b \/ Edge(a, b) \in graph[g].edges) => RejectedQuietly(g, a, b)

\* addEdge(1, 1) was called on the graph whose only vertex is 1, and returned
\* False: no other call returns without an error there
C11_Witness ==
    /\ lastOp.op = "addEdge"
    /\ ~lastOp.ok
    /\ lastOp.err = NoErr
    /\ DOMAIN graph["g1"].vertices = {1}
    /\ graph["g1"].edges = {}

\* what add_edge(a, b) does for a # b: the error and no change of the edge set
\* or of an adjacency set when a vertex is missing, the edge and both
\* adjacency entries when both are vertices and the edge is new
AddEdgeContract(g, a, b) ==
    LET r == add_edge(World, g, a, b)
        G == graph[g]
        G1 == r.w.gs[g]
    IN  /\ Missing(g, a, b) =>
              /\ r.err = "ValueError"
              /\ G1.edges = G.edges
              /\ G1.adjacency = G.adjacency
        /\ (~Missing(g, a, b) /\ {e \in G.edges : {e[1], e[2]} = {a, b}} = {}) =>
              /\ r.err = NoErr
              /\ r.ret
              /\ G1.edges \ G.edges = {<<Min2(a, b), Max2(a, b)>>}
              /\ G.edges \subseteq G1.edges
              /\ G1.adjacency = [k \in DOMAIN G.adjacency |->
                                   IF k = a THEN G.adjacency[k] \cup {b}
                                   ELSE IF k = b THEN G.adjacency[k] \cup {a}
                                   ELSE G.adjacency[k]]

\* C12: addEdge(a, b) with a # b signals the missing-vertex error and leaves
\* the edge set and every adjacency set unchanged when a or b is not a vertex;
\* when both are vertices and the edge is new it returns true, adds the edge
\* to the edge set and each endpoint to the other's adjacency set.
C12_AddEdgeContract ==
    \A g \in Graphs : \A a \in CallerIds(g), b \in CallerIds(g) :
       a # b => AddEdgeContract(g, a, b)

\* addEdge has added the first edge of a graph of two vertices
C12_Witness ==
    /\ lastOp.op = "addEdge"
    /\ lastOp.ok
    /\ DOMAIN graph["g1"].vertices = {1, 2}
    /\ graph["g1"].edges = {<<1, 2>>}
    /\ graph["g1"].adjacency[1] = {2}
    /\ graph["g1"].adjacency[2] = {1}

-----------------------------------------------------------------------------
(* The next-id counter *)

\* the calls that never reset the counter: clear, create_initial_triangle and
\* from_dict do
KeepsCounter == {"addVertex", "addEdge", "removeVertex", "addRandomVertex", "addManualVertex"}

\* the step has given out the id the counter held and moved the counter on
IssuedNextId(g) ==
    /\ graph'[g].next_vertex_id = graph[g].next_vertex_id + 1
    /\ graph[g].next_vertex_id \in DOMAIN graph'[g].vertices

\* the step is an insertion command that reported success
SuccessfulInsertion ==
    /\ lastOp'.op \in {"addRandomVertex", "addManualVertex"}
    /\ lastOp'.ok

\* C13: over addVertex, addEdge, removeVertex and insertions the ids given out
\* grow strictly, also across removals: the counter never decreases, a vertex
\* enters the graph only under the id the counter holds, and addVertex and a
\* successful insertion give out that id and move the counter past it.
C13_IdsNeverReused ==
    [][lastOp'.op \in KeepsCounter =>
          /\ graph'[lastOp'.g].next_vertex_id >= graph[lastOp'.g].next_vertex_id
          /\ DOMAIN graph'[lastOp'.g].vertices
                \subseteq DOMAIN graph[lastOp'.g].vertices \cup {graph[lastOp'.g].next_vertex_id}
          /\ (lastOp'.op = "addVertex" \/ SuccessfulInsertion) => IssuedNextId(lastOp'.g)]_vars

\* addVertex returned 2 after vertex 1 had been removed
C13_Witness ==
    /\ lastOp.op = "addVertex"
    /\ DOMAIN graph["g1"].vertices = {2}
    /\ graph["g1"].next_vertex_id = 3

-----------------------------------------------------------------------------
(* Import of a document *)

\* the edge list of the document names an id its vertices field does not define
NamesUndefinedVertex(data) ==
    \E k \in 1..Len(data.edges) :
       data.edges[k][1] \notin DOMAIN data.vertices \/ data.edges[k][2] \notin DOMAIN data.vertices

\* the last call was the import of a document, into graph lastOp.g
Imported == lastOp.op = "importDocument"

\* C14: importSnapshot reports failure for every document that lacks any of
\* the fields vertices, edges, periphery, next_vertex_id, and for every
\* document whose edge list names a vertex id its vertices field does not define.
C14_IncompleteRejected ==
    (Imported /\ (lastOp.b # AllFields \/ NamesUndefinedVertex(Files[lastOp.a])))
       => ~lastOp.ok

\* C14 (amended): importSnapshot reports failure for every document that lacks
\* vertices or edges and for every document whose edge list names an undefined
\* vertex id; a document that lacks only periphery or next_vertex_id is
\* imported, with the empty periphery or the number of its vertices plus one
\* in place of the missing field.
C14_VerticesAndEdgesRequired ==
    Imported =>
       LET data == Files[lastOp.a]
           G == graph[lastOp.g]
       IN  IF ~({"vertices", "edges"} \subseteq lastOp.b) \/ NamesUndefinedVertex(data)
           THEN ~lastOp.ok
           ELSE /\ lastOp.ok
                /\ "periphery" \notin lastOp.b => heap[G.periphery] = <<>>
                /\ "next_vertex_id" \notin lastOp.b
                      => G.next_vertex_id = Cardinality(DOMAIN data.vertices) + 1

\* a document without its periphery and next_vertex_id fields has been imported
C14_Witness ==
    /\ Imported
    /\ lastOp.b = {"vertices", "edges"}
    /\ lastOp.ok
    /\ DOMAIN graph[lastOp.g].vertices = {1, 2, 3}
    /\ graph[lastOp.g].next_vertex_id = 4

-----------------------------------------------------------------------------
(* Two graphs, one importing what the other exported *)

\* importer.from_dict(exporter.to_dict()) after exporter.create_initial_triangle()
ImportExported(exporter, importer) ==
    LET w1 == create_initial_triangle(EmptyWorld, exporter)
        order == CHOOSE o \in SeqsOf(w1.gs[exporter].edges) : TRUE
    IN  from_dict(w1, importer, to_dict(w1.gs[exporter], order)).w

\* g2 has imported the export of g1, or g1 that of g2
InitShared ==
    \E exporter \in Graphs, importer \in Graphs :
       /\ exporter # importer
       /\ graph = RenamedGraphs(ImportExported(exporter, importer).gs)
       /\ heap = Collect(ImportExported(exporter, importer).gs,
                         ImportExported(exporter, importer).hp)
       /\ lastOp = Op("importExported", importer, 0, 0, TRUE, NoErr)
       /\ passes = 0

\* the calls on g1 after the exchange
NextShared ==
    \/ RemoveVertex("g1")
    \/ Clear("g1")
    \/ CreateInitialTriangle("g1")
    \/ AddRandomVertex("g1")
    \/ AddManualVertex("g1")

SpecShared == InitShared /\ [][NextShared]_vars

\* the step leaves every field of graph g as it was; the name of its periphery
\* list is not a field
FieldsUnchanged(g) ==
    /\ [graph'[g] EXCEPT !.periphery = "L1"] = [graph[g] EXCEPT !.periphery = "L1"]
    /\ heap'[graph'[g].periphery] = heap[graph[g].periphery]

\* C15: after one graph has imported a snapshot exported from the other, no
\* call on g1 changes a field of g2, its periphery list included, whichever
\* of the two was the importer.
C15_InstancesIndependent == [][FieldsUnchanged("g2")]_vars

-----------------------------------------------------------------------------
(* get_periphery_segment on the peripheries a graph can hold *)

\* the ids on a periphery, and its greatest length
SegmentIds == 5

\* every list of at most n elements of S
Lists(S, n) == UNION {[1..k -> S] : k \in 0..n}

\* the peripheries followed: those that list no id twice (what update_periphery
\* computes) and the short ones that do (what an import can bring)
Peripheries ==
    {p \in Lists(1..SegmentIds, SegmentIds) : NoRepeats(p) \/ Len(p) <= 3}

\* a document of SegmentIds vertices on a line with periphery p
FileWithPeriphery(p) ==
    [has |-> AllFields,
     vertices |-> [id \in 1..SegmentIds |-> FileVertex(id, 300 + id, 300)],
     vkeys |-> [id \in 1..SegmentIds |-> id], edges |-> <<>>,
     periphery |-> p, next_vertex_id |-> SegmentIds + 1]

\* g1 has imported a document
InitSegment ==
    \E p \in Peripheries :
       LET w == load_file(EmptyWorld, "g1", FileWithPeriphery(p)).w
       IN  /\ graph = RenamedGraphs(w.gs)
           /\ heap = Collect(w.gs, w.hp)
           /\ lastOp = Op("importSnapshot", "g1", 0, 0, TRUE, NoErr)
           /\ passes = 0

\* graph.get_periphery_segment(start_id, end_id): the list returned is
\* lastOp.ret; the method assigns nothing
GetPeripherySegment(g) ==
    /\ lastOp.op = "importSnapshot"
    /\ \E start_id \in 1..SegmentIds, end_id \in 1..SegmentIds :
          lastOp' = [ret |-> get_periphery_segment(World, g, start_id, end_id)]
                      @@ Op("getPeripherySegment", g, start_id, end_id, TRUE, NoErr)
    /\ UNCHANGED <<graph, heap, passes>>

NextSegment == GetPeripherySegment("g1")

SpecSegment == InitSegment /\ [][NextSegment]_vars

\* seg is the run of P from the first s to the first e, past the end of P
\* when s comes after e; empty when s or e is not on P
RunFromTo(P, s, e, seg) ==
    IF s \in Range(P) /\ e \in Range(P)
    THEN LET n == Len(P)
             i == IndexOf(P, s)
             j == IndexOf(P, e)
         IN  /\ Len(seg) = ((j - i) % n) + 1
             /\ \A k \in 1..Len(seg) : seg[k] = P[((i + k - 2) % n) + 1]
             /\ seg[1] = s
             /\ seg[Len(seg)] = e
             /\ s = e => seg = <<s>>
    ELSE seg = <<>>

\* C16: getPeripherySegment(s, e) returns the contiguous run of the periphery
\* list from s to e inclusive, wrapping past the end when index(s) > index(e),
\* of length ((index(e) - index(s)) mod n) + 1; it returns the empty list when
\* s or e is not on the periphery; and it never changes the graph.
C16_SegmentIsRun ==
    [][lastOp'.op = "getPeripherySegment" =>
          /\ RunFromTo(heap[graph[lastOp'.g].periphery], lastOp'.a, lastOp'.b, lastOp'.ret)
          /\ GraphUnchanged(lastOp'.g)]_vars

\* the wrap case: s = 5 and e = 2 on [1, 2, 3, 4, 5] gave [5, 1, 2]
C16_Witness ==
    /\ lastOp.op = "getPeripherySegment"
    /\ heap[graph["g1"].periphery] = <<1, 2, 3, 4, 5>>
    /\ lastOp.a = 5
    /\ lastOp.b = 2
    /\ lastOp.ret = <<5, 1, 2>>

-----------------------------------------------------------------------------
(* The initial triangle *)

\* a vertex of color 1 and diameter 30 at (x, y), in 1/Unit pixels
Corner(id, x, y) == [id |-> id, x |-> x, y |-> y, color_index |-> 1, diameter |-> 30]

\* graph g is the triangle around (400, 300): vertices 1, 2, 3 at radius 100
\* and 0, 120, 240 degrees, the three edges, the periphery 3, 1, 2, next id 4
IsInitialTriangle(g) ==
    /\ graph[g].vertices = <<Corner(1, 5000, 3000), Corner(2, 3500, 3866), Corner(3, 3500, 2134)>>
    /\ graph[g].vorder = <<1, 2, 3>>
    /\ graph[g].edges = {<<1, 2>>, <<2, 3>>, <<1, 3>>}
    /\ graph[g].adjacency = <<{2, 3}, {1, 3}, {1, 2}>>
    /\ heap[graph[g].periphery] = <<3, 1, 2>>
    /\ graph[g].next_vertex_id = 4

\* C17: createInitialTriangle called in any state yields the same state:
\* exactly the vertices 1, 2, 3, exactly the edges {1,2}, {2,3}, {1,3}, a
\* periphery of exactly the three ids and next id 4; nothing of the previous
\* graph survives, and a second call gives the state of the first.
C17_TriangleAlwaysSame ==
    lastOp.op = "createInitialTriangle" => IsInitialTriangle(lastOp.g)

\* the triangle has been created
C17_Witness ==
    /\ lastOp.op = "createInitialTriangle"
    /\ DOMAIN graph["g1"].vertices = {1, 2, 3}
    /\ Cardinality(graph["g1"].edges) = 3

-----------------------------------------------------------------------------
(* remove_vertex *)

\* list P without the entries equal to id, the others in their order
Without(P, id) == SelectSeq(P, LAMBDA x : x # id)

\* what remove_vertex(id) with result r owes graph g: nothing changes when id
\* is not a vertex; otherwise id leaves the vertices, the edges, the adjacency
\* sets and the periphery, and the rest stays
RemoveVertexContract(g, id, r) ==
    LET G == graph[g]
        G1 == r.w.gs[g]
    IN  IF id \notin DOMAIN G.vertices THEN r.err = NoErr /\ r.w = World
        ELSE /\ r.err = NoErr
             /\ G1.vertices = [k \in DOMAIN G.vertices \ {id} |-> G.vertices[k]]
             /\ G1.edges = {e \in G.edges : id # e[1] /\ id # e[2]}
             /\ id \notin DOMAIN G1.adjacency
             /\ \A k \in DOMAIN G1.adjacency : id \notin G1.adjacency[k]
             /\ id \notin Range(Periphery(r.w, g))
             /\ Periphery(r.w, g) = Without(Periphery(World, g), id)
             /\ G1.next_vertex_id = G.next_vertex_id

\* C18: removeVertex(id) is a no-op when id is absent; otherwise afterwards id
\* is not a vertex, no edge contains id, no adjacency set contains id, id is
\* not on the periphery, and every other vertex, every edge not incident to
\* id, the order of the remaining periphery entries and the next-id counter
\* are unchanged.
C18_RemoveVertex ==
    \A g \in Graphs : \A id \in CallerIds(g) :
       \A r \in remove_vertex_outcomes(World, g, id) : RemoveVertexContract(g, id, r)

-----------------------------------------------------------------------------
(* What an import leaves *)

\* the ids that the edge list of the document joins to k
JoinedTo(data, k) ==
    {data.edges[n][2] : n \in {n \in 1..Len(data.edges) : data.edges[n][1] = k}}
      \cup {data.edges[n][1] : n \in {n \in 1..Len(data.edges) : data.edges[n][2] = k}}

\* graph g holds what the document holds and nothing else
HoldsDocument(g, data) ==
    LET G == graph[g]
    IN  /\ G.vertices = data.vertices
        /\ G.edges = {<<Min2(data.edges[n][1], data.edges[n][2]),
                         Max2(data.edges[n][1], data.edges[n][2])>> : n \in 1..Len(data.edges)}
        /\ heap[G.periphery] = data.periphery
        /\ G.next_vertex_id = data.next_vertex_id
        /\ DOMAIN G.adjacency = DOMAIN data.vertices
        /\ \A k \in DOMAIN G.adjacency : G.adjacency[k] = JoinedTo(data, k)

\* C19: an importSnapshot that returns without an error has replaced the graph
\* state: the vertices, the edge set, the periphery list and the next id are
\* those of the document, periphery and next id as they stand in it, the
\* adjacency is the one its edge list induces, and nothing of the graph before
\* the import is left.
C19_ImportReplaces ==
    (Imported /\ lastOp.ok /\ lastOp.b = AllFields) => HoldsDocument(lastOp.g, Files[lastOp.a])

\* the file whose periphery lists a vertex it does not define has been
\* imported, periphery and all
C19_Witness ==
    /\ Imported
    /\ lastOp.ok
    /\ lastOp.b = AllFields
    /\ lastOp.a = 4
    /\ heap[graph[lastOp.g].periphery] = <<1, 2, 3>>
    /\ DOMAIN graph[lastOp.g].vertices = {1, 2}

-----------------------------------------------------------------------------
(* apply_redraw_logic step by step: the passes of _adjust_edge_lengths     *)
(* Between the call and the return lastOp is the frame of the call:        *)
(* target_length, order (the order in which graph.edges iterates, the same *)
(* in every pass since the set is not changed), iteration (the passes      *)
(* begun), remaining (the passes range(3) has still to give), pending (the *)
(* edges the running pass has still to visit) and examined (how often each *)
(* edge was visited).                                                      *)

\* the graphs redrawn have 2 to RedrawVertices vertices
RedrawVertices == 3

\* where their vertices are, in tenths of a pixel: three of the points are on
\* a line
RedrawPoints ==
    {<<300 * Unit, 300 * Unit>>, <<400 * Unit, 300 * Unit>>,
     <<500 * Unit, 300 * Unit>>, <<400 * Unit, 400 * Unit>>}

RECURSIVE AddCycleEdges(_, _, _, _)
\* add_edge(i, i + 1) for i = 1..k, the last vertex joined to the first
AddCycleEdges(w, g, n, k) ==
    IF k = 0 THEN w
    ELSE add_edge(AddCycleEdges(w, g, n, k - 1), g, k, (k % n) + 1).w

InitRedraw ==
    \E n \in 2..RedrawVertices :
       \E pts \in [1..n -> RedrawPoints], k \in 0..n :
          /\ graph = AddCycleEdges(AddVertices(EmptyWorld, "g1", pts), "g1", n, k).gs
          /\ heap = EmptyWorld.hp
          /\ lastOp = Op("addEdge", "g1", 0, 0, TRUE, NoErr)
          /\ passes = 0

Frame(op, g, err, target_length, order, remaining) ==
    [op |-> op, g |-> g, a |-> 0, b |-> 0, ok |-> err = NoErr, err |-> err,
     target_length |-> target_length, order |-> order, iteration |-> 0,
     remaining |-> remaining, pending |-> <<>>,
     examined |-> [e \in Range(order) |-> 0]]

\* the frame at the head of _adjust_edge_lengths without "if target_length
\* == 0: return"
EnterLoopAlways(g, G2, order) ==
    Frame("adjustEdgeLengths", g, NoErr, calculate_average_edge_length(G2), order,
          LengthIterations)

\* the frame at the head of _adjust_edge_lengths when it returns early only
\* for a graph without edges
EnterLoopUnlessNoEdges(g, G2, order) ==
    Frame("adjustEdgeLengths", g, NoErr, calculate_average_edge_length(G2), order,
          IF G2.edges = {} THEN 0 ELSE LengthIterations)

\* the frame at the head of _adjust_edge_lengths: no pass when target_length is 0
EnterLoop(g, G2, order) ==
    Frame("adjustEdgeLengths", g, NoErr, calculate_average_edge_length(G2), order,
          IF calculate_average_edge_length(G2) = 0 THEN 0 ELSE LengthIterations)

\* apply_redraw_logic from update_periphery (world w1) and
\* _rebalance_angular_spacing (r2) to the head of _adjust_edge_lengths
BeginRebalanced(g, w1, r2) ==
    /\ graph' = RenamedGraphs(SetGraph(w1, g, r2.G).gs)
    /\ heap' = Collect(w1.gs, w1.hp)
    /\ IF r2.err # NoErr THEN lastOp' = Frame("applyRedraw", g, r2.err, 0, <<>>, 0)
       ELSE IF Dangling(r2.G) THEN lastOp' = Frame("applyRedraw", g, "KeyError", 0, <<>>, 0)
       ELSE \E order \in EdgeOrders(r2.G) : lastOp' = EnterLoop(g, r2.G, order)


\* the call of apply_redraw_logic
BeginRedraw(g) ==
    /\ lastOp.op = "addEdge"
    /\ IF Len(graph[g].vorder) < 3
       THEN /\ lastOp' = Frame("applyRedraw", g, NoErr, 0,
                                CHOOSE o \in SeqsOf(graph[g].edges) : TRUE, 0)
            /\ UNCHANGED <<graph, heap>>
       ELSE BeginRebalanced(g, update_periphery(World, g),
                            rebalance_angular_spacing(update_periphery(World, g).gs[g]))
    /\ UNCHANGED passes

\* for iteration in range(3): the next pass begins
StartPass(g) ==
    /\ lastOp.op = "adjustEdgeLengths"
    /\ lastOp.pending = <<>>
    /\ lastOp.remaining > 0
    /\ lastOp' = [lastOp EXCEPT !.pending = lastOp.order, !.remaining = @ - 1,
                                !.iteration = @ + 1]
    /\ UNCHANGED <<graph, heap, passes>>

\* for edge in graph.edges: the body for the next edge of the pass; length_ratio
\* = current_length / target_length raises ZeroDivisionError when target_length
\* is 0, and the call ends there
ExamineEdge(g) ==
    /\ lastOp.op = "adjustEdgeLengths"
    /\ lastOp.pending # <<>>
    /\ graph' = [graph EXCEPT ![g] = AdjustEdge(@, Head(lastOp.pending), lastOp.target_length)]
    /\ lastOp' = IF lastOp.target_length = 0
                 THEN [lastOp EXCEPT !.op = "applyRedraw", !.ok = FALSE,
                                     !.err = "ZeroDivisionError",
                                     !.examined[Head(lastOp.pending)] = @ + 1]
                 ELSE [lastOp EXCEPT !.pending = Tail(@),
                                     !.examined[Head(lastOp.pending)] = @ + 1]
    /\ UNCHANGED <<heap, passes>>

\* the loop is over: _maintain_convex_contour, _update_vertex_diameters, return
EndRedraw(g) ==
    /\ lastOp.op = "adjustEdgeLengths"
    /\ lastOp.pending = <<>>
    /\ lastOp.remaining = 0
    /\ graph' = [graph EXCEPT ![g] = update_vertex_diameters(
                                        maintain_convex_contour(@, Periphery(World, g)))]
    /\ lastOp' = [lastOp EXCEPT !.op = "applyRedraw"]
    /\ UNCHANGED <<heap, passes>>

NextRedraw ==
    \/ BeginRedraw("g1")
    \/ StartPass("g1")
    \/ ExamineEdge("g1")
    \/ EndRedraw("g1")

\* the interpreter runs a call on: a step that can be taken is taken
SpecRedraw == InitRedraw /\ [][NextRedraw]_vars /\ WF_vars(NextRedraw)

\* apply_redraw_logic has returned or raised
RedrawEnded == lastOp.op = "applyRedraw"

\* C20: applyRedraw always terminates, and within one call the edge-length
\* adjustment performs exactly 3 passes over the edge set, each edge examined
\* at most 3 times, whatever the graph: here, what holds of a call that ended.
C20_ExactlyThreePasses ==
    RedrawEnded =>
       /\ lastOp.iteration = 3
       /\ \A e \in graph[lastOp.g].edges : lastOp.examined[e] <= 3

\* the call ran the loop: 3 or more vertices and an average edge length other than 0
RanLoop == Len(graph[lastOp.g].vorder) >= 3 /\ lastOp.target_length # 0

\* an upper bound of the steps a call has still to take before it returns
StepsLeft ==
    IF RedrawEnded THEN 0
    ELSE IF lastOp.op = "adjustEdgeLengths"
         THEN 1 + lastOp.remaining * (Len(lastOp.order) + 1) + Len(lastOp.pending)
         ELSE 2 + 3 * (Cardinality(graph[lastOp.g].edges) + 1)

\* C20 (amended): applyRedraw always terminates (every step of the call
\* lowers StepsLeft, a natural number, so the call returns after finitely many
\* steps), and within one call the edge-length adjustment performs at most 3
\* passes over the edge set: exactly 3, each edge examined exactly 3 times,
\* when the graph has 3 or more vertices and its average edge length is not
\* 0, whether or not edges are still out of tolerance after the third pass;
\* and none when the graph has fewer than 3 vertices or the average edge
\* length is 0.
C20_AtMostThreePasses ==
    /\ [][StepsLeft' < StepsLeft]_vars
    /\ [](StepsLeft \in Nat)
    /\ [](RedrawEnded =>
            /\ lastOp.iteration = (IF RanLoop THEN 3 ELSE 0)
            /\ \A e \in graph[lastOp.g].edges : lastOp.examined[e] = lastOp.iteration)

\* a call has ended after three passes with an edge still out of tolerance
C20_Witness ==
    /\ RedrawEnded
    /\ lastOp.iteration = 3
    /\ \E e \in graph["g1"].edges :
          /\ lastOp.examined[e] = 3
          /\ OutOfTolerance(DistanceTo(graph["g1"].vertices[e[1]], graph["g1"].vertices[e[2]]),
                            lastOp.target_length)

-----------------------------------------------------------------------------
\* C21: applyRedraw on a graph that satisfies the store invariants returns
\* without an error, also when edges have length 0, vertices coincide, the
\* average edge length is 0 or a vertex is at the centroid: no division by
\* zero is reached.
C21_RelaxationNeverFails == RedrawEnded => (lastOp.ok /\ lastOp.err = NoErr)

\* a call has returned for three vertices at one point (each of them at the
\* centroid) joined by edges, all of length 0: the average is 0
C21_Witness ==
    /\ RedrawEnded
    /\ lastOp.ok
    /\ Len(graph["g1"].vorder) >= 3
    /\ graph["g1"].edges # {}
    /\ lastOp.target_length = 0
    /\ \A k \in DOMAIN graph["g1"].vertices :
          Pos(graph["g1"], k) = calculate_graph_center(graph["g1"])

-----------------------------------------------------------------------------
\* the periphery segment from s to e has fewer than 2 vertices
ShortSegment(g, s, e) == Len(get_periphery_segment(World, g, s, e)) < 2

\* C22: computePosition(graph, start, end) fails with InvalidSegment (a
\* ValueError; it assigns nothing, so the graph is as before) whenever the
\* periphery segment from start to end has fewer than 2 vertices, that is when
\* start = end or an anchor is not on the periphery; computeRandomPosition
\* fails with InsufficientPeriphery (a ValueError) when the periphery has fewer
\* than 2 vertices.
C22_PositionFailures ==
    \A g \in Graphs :
       /\ \A s \in CallerIds(g), e \in CallerIds(g) :
             /\ ShortSegment(g, s, e) <=>
                   \/ s = e
                   \/ s \notin Range(Periphery(World, g))
                   \/ e \notin Range(Periphery(World, g))
             /\ ShortSegment(g, s, e) =>
                   calculate_vertex_position(World, g, s, e).err = "ValueError"
       /\ Len(Periphery(World, g)) < 2 =>
             \A r \in calculate_random_vertex_position(World, g) : r.err = "ValueError"

\* a manual insertion between a periphery vertex and itself was refused by
\* calculate_vertex_position: the segment is that one vertex
C22_Witness ==
    /\ lastOp.op = "addManualVertex"
    /\ lastOp.a = lastOp.b
    /\ lastOp.err = "ValueError"
    /\ ShortSegment(lastOp.g, lastOp.a, lastOp.b)
    /\ Len(Periphery(World, lastOp.g)) < 2

-----------------------------------------------------------------------------
(* geometry.py: the display transforms scale_graph, translate_graph and    *)
(* center_graph_in_bounds.  The coordinates are floats: a sum that needs   *)
(* more significant bits than the mantissa has is rounded (FloatRound).    *)

\* the transforms made in one behaviour
MaxTransforms == 2

\* GeometryEngine.scale_graph; scale_factor is the fraction <<numerator, denominator>>
scale_graph(G, scale_factor, center) ==
    [G EXCEPT !.vertices = [k \in DOMAIN G.vertices |->
        [G.vertices[k] EXCEPT
           !.x = center[1] + RoundDiv((@ - center[1]) * scale_factor[1], scale_factor[2]),
           !.y = center[2] + RoundDiv((@ - center[2]) * scale_factor[1], scale_factor[2])]]]

\* translate_graph when only x is moved
translate_graph_x_only(G, dx, dy) ==
    [G EXCEPT !.vertices = [k \in DOMAIN G.vertices |->
        [G.vertices[k] EXCEPT !.x = FloatRound(@ + dx, 1)]]]

\* GeometryEngine.translate_graph
translate_graph(G, dx, dy) ==
    [G EXCEPT !.vertices = [k \in DOMAIN G.vertices |->
        [G.vertices[k] EXCEPT !.x = FloatRound(@ + dx, 1), !.y = FloatRound(@ + dy, 1)]]]

\* GeometryEngine.center_graph_in_bounds: padding_factor is 8 / 10, the
\* bounding box is computed again after the scaling
center_graph_in_bounds(G, bounds) ==
    IF Len(G.vorder) = 0 THEN G
    ELSE LET xs == {G.vertices[k].x : k \in DOMAIN G.vertices}
             ys == {G.vertices[k].y : k \in DOMAIN G.vertices}
             min_x == CHOOSE v \in xs : \A u \in xs : v <= u
             max_x == CHOOSE v \in xs : \A u \in xs : v >= u
             min_y == CHOOSE v \in ys : \A u \in ys : v <= u
             max_y == CHOOSE v \in ys : \A u \in ys : v >= u
             bounds_width == bounds[3] - bounds[1]
             bounds_height == bounds[4] - bounds[2]
             scaled ==
                 IF max_x - min_x > 0 /\ max_y - min_y > 0
                 THEN scale_graph(G,
                        IF bounds_width * (max_y - min_y) <= bounds_height * (max_x - min_x)
                        THEN <<bounds_width * 8, (max_x - min_x) * 10>>
                        ELSE <<bounds_height * 8, (max_y - min_y) * 10>>,
                        <<RoundDiv(min_x + max_x, 2), RoundDiv(min_y + max_y, 2)>>)
                 ELSE G
             xs2 == {scaled.vertices[k].x : k \in DOMAIN G.vertices}
             ys2 == {scaled.vertices[k].y : k \in DOMAIN G.vertices}
             min_x2 == CHOOSE v \in xs2 : \A u \in xs2 : v <= u
             max_x2 == CHOOSE v \in xs2 : \A u \in xs2 : v >= u
             min_y2 == CHOOSE v \in ys2 : \A u \in ys2 : v <= u
             max_y2 == CHOOSE v \in ys2 : \A u \in ys2 : v >= u
         IN  translate_graph(scaled,
               RoundDiv(bounds[1] + bounds[3], 2) - RoundDiv(min_x2 + max_x2, 2),
               RoundDiv(bounds[2] + bounds[4], 2) - RoundDiv(min_y2 + max_y2, 2))

\* scale_graph called with a factor of 2 or 1/2 and the center (400, 300)
ScaleGraph(g) ==
    /\ passes < MaxTransforms
    /\ \E scale_factor \in {<<2, 1>>, <<1, 2>>} :
          /\ graph' = [graph EXCEPT ![g] = scale_graph(@, scale_factor, <<4000, 3000>>)]
          /\ lastOp' = Op("scaleGraph", g, scale_factor[1], scale_factor[2], TRUE, NoErr)
    /\ passes' = passes + 1
    /\ UNCHANGED heap

\* translate_graph called with half a pixel or with an offset as large as the
\* first float that has a spacing of 2
TranslateGraph(g) ==
    /\ passes < MaxTransforms
    /\ \E dx \in {5, -(2 ^ MantissaBits)}, dy \in {-5, 2 ^ MantissaBits} :
          /\ graph' = [graph EXCEPT ![g] = translate_graph(@, dx, dy)]
          /\ lastOp' = Op("translateGraph", g, dx, dy, TRUE, NoErr)
    /\ passes' = passes + 1
    /\ UNCHANGED heap

\* center_graph_in_bounds called with the bounds (100, 100, 700, 500)
CenterInBounds(g) ==
    /\ passes < MaxTransforms
    /\ graph' = [graph EXCEPT ![g] = center_graph_in_bounds(@, <<1000, 1000, 7000, 5000>>)]
    /\ lastOp' = Op("centerInBounds", g, 0, 0, TRUE, NoErr)
    /\ passes' = passes + 1
    /\ UNCHANGED heap

NextTransform ==
    \/ ScaleGraph("g1")
    \/ TranslateGraph("g1")
    \/ CenterInBounds("g1")

SpecTransform == InitRedraw /\ [][NextTransform]_vars

\* the last step was a display transform
Transformed == lastOp.op \in {"scaleGraph", "translateGraph", "centerInBounds"}

\* graph g is as it was but for the positions of its vertices
OnlyPositionsChange(g) ==
    /\ DOMAIN graph'[g].vertices = DOMAIN graph[g].vertices
    /\ graph'[g].vorder = graph[g].vorder
    /\ \A k \in DOMAIN graph[g].vertices :
          /\ graph'[g].vertices[k].id = graph[g].vertices[k].id
          /\ graph'[g].vertices[k].color_index = graph[g].vertices[k].color_index
          /\ graph'[g].vertices[k].diameter = graph[g].vertices[k].diameter
    /\ graph'[g].edges = graph[g].edges
    /\ graph'[g].adjacency = graph[g].adjacency
    /\ graph'[g].periphery = graph[g].periphery
    /\ heap' = heap
    /\ graph'[g].next_vertex_id = graph[g].next_vertex_id

\* the step moved every vertex of g by exactly (dx, dy)
MovedExactly(g, dx, dy) ==
    \A k \in DOMAIN graph[g].vertices :
       /\ graph'[g].vertices[k].x = graph[g].vertices[k].x + dx
       /\ graph'[g].vertices[k].y = graph[g].vertices[k].y + dy

\* the offsets a caller translates by
Offsets == {<<5, -5>>, <<-5, 5>>, <<2 ^ MantissaBits, 0>>, <<0, -(2 ^ MantissaBits)>>}

\* translating G by d and then by -d gives G again
Restored(G, d) == translate_graph(translate_graph(G, d[1], d[2]), -d[1], -d[2]) = G

\* C23: scaleGraph, translateGraph and centerInBounds change vertex positions
\* only (vertex IDs, colors, edges, adjacency, periphery list and next-ID
\* counter stay); translateGraph(dx, dy) moves every vertex by exactly
\* (dx, dy), and translateGraph(dx, dy) followed by translateGraph(-dx, -dy)
\* restores every position.
C23_TransformsExact ==
    /\ [][Transformed' => OnlyPositionsChange(lastOp'.g)]_vars
    /\ [][lastOp'.op = "translateGraph" => MovedExactly(lastOp'.g, lastOp'.a, lastOp'.b)]_vars
    /\ [](\A d \in Offsets : Restored(graph["g1"], d))

\* every coordinate of G moved by d is a float
SumsAreFloats(G, d) ==
    \A k \in DOMAIN G.vertices :
       IsFloat(G.vertices[k].x + d[1]) /\ IsFloat(G.vertices[k].y + d[2])

\* the step moved the vertices of g by (dx, dy) up to the rounding of a float:
\* a relative error of at most 2^-MantissaBits
MovedNearly(g, dx, dy) ==
    \A k \in DOMAIN graph[g].vertices :
       /\ Abs(graph'[g].vertices[k].x - (graph[g].vertices[k].x + dx)) * (2 ^ MantissaBits)
             <= Abs(graph[g].vertices[k].x + dx)
       /\ Abs(graph'[g].vertices[k].y - (graph[g].vertices[k].y + dy)) * (2 ^ MantissaBits)
             <= Abs(graph[g].vertices[k].y + dy)

\* C23 (amended): scaleGraph, translateGraph and centerInBounds change vertex
\* positions only; translateGraph(dx, dy) moves every vertex by (dx, dy) up to
\* floating-point rounding, and by exactly (dx, dy) when the sums x + dx and
\* y + dy are floats; translateGraph(dx, dy) followed by translateGraph(-dx,
\* -dy) restores every position when these sums are floats for every vertex.
C23_TransformsUpToRounding ==
    /\ [][Transformed' => OnlyPositionsChange(lastOp'.g)]_vars
    /\ [][lastOp'.op = "translateGraph" =>
            /\ MovedNearly(lastOp'.g, lastOp'.a, lastOp'.b)
            /\ SumsAreFloats(graph[lastOp'.g], <<lastOp'.a, lastOp'.b>>) =>
                  MovedExactly(lastOp'.g, lastOp'.a, lastOp'.b)]_vars
    /\ [](\A d \in Offsets :
            SumsAreFloats(graph["g1"], d) => Restored(graph["g1"], d))

\* a graph with edges was translated by half a pixel after another transform
C23_Witness ==
    /\ lastOp.op = "translateGraph"
    /\ lastOp.a = 5
    /\ passes = 2
    /\ graph["g1"].edges # {}
    /\ \E d \in Offsets :
          /\ SumsAreFloats(graph["g1"], d)
          /\ \E k \in DOMAIN graph["g1"].vertices : graph["g1"].vertices[k].x + d[1] >= 2 ^ MantissaBits

-----------------------------------------------------------------------------
\* the vertices of graph G after the five steps in their order: the periphery P
\* is the one recomputed from the positions at the call, G is rebalanced, its
\* edges are adjusted in the given order, the convexity step runs on P, the
\* diameters are refreshed
StepsInOrder(G, P, order) ==
    update_vertex_diameters(
      maintain_convex_contour(
        adjust_edge_lengths(rebalance_angular_spacing(G).G, order), P)).vertices

\* the step was a call of applyRedraw on g that returned
Redrawn(g) == lastOp'.op = "applyRedraw" /\ lastOp'.g = g /\ lastOp'.ok

\* C24: applyRedraw on a graph with fewer than 3 vertices changes nothing, not
\* even the periphery; with 3 or more vertices it performs once each, in this
\* order, periphery recomputation, angular rebalance, edge-length adjustment,
\* convexity maintenance and diameter refresh: the periphery at return is the
\* one computed from the positions at the call, and the convexity step works
\* on it.
C24_RedrawSequence ==
    [][\A g \in Graphs : Redrawn(g) =>
          IF Len(graph[g].vorder) < 3 THEN GraphUnchanged(g)
          ELSE /\ heap'[graph'[g].periphery] = Periphery(update_periphery(World, g), g)
               /\ \E order \in SeqsOf(graph[g].edges) :
                     graph'[g].vertices =
                        StepsInOrder(graph[g], Periphery(update_periphery(World, g), g), order)
               /\ graph'[g].edges = graph[g].edges
               /\ graph'[g].adjacency = graph[g].adjacency
               /\ graph'[g].next_vertex_id = graph[g].next_vertex_id]_vars

\* applyRedraw has returned for 3 or more vertices and has moved some of them,
\* so that the periphery, computed first, is no longer the hull
C24_Witness ==
    /\ lastOp.op = "applyRedraw"
    /\ lastOp.ok
    /\ passes > 0
    /\ VertexCount(graph["g1"]) >= 3
    /\ ~IsConvexHull(graph["g1"], Periphery(World, "g1"))

-----------------------------------------------------------------------------
\* the step was a successful addManualVertex on g
ManuallyInserted(g) == lastOp'.op = "addManualVertex" /\ lastOp'.g = g /\ lastOp'.ok

-----------------------------------------------------------------------------
\* the periphery list of the document that to_dict returns for graph g now is,
\* in world w2, what it is now
DocumentKept(g, w2) ==
    w2.hp[to_dict(graph[g], <<>>).periphery] = heap[to_dict(graph[g], <<>>).periphery]

\* C26: the document returned by exportSnapshot is a value independent of the
\* graph: removeVertex, clear, createInitialTriangle, importSnapshot and
\* insertions performed on the graph after the export change no field of the
\* document, in particular not its periphery list.
C26_ExportIsValue ==
    \A g \in Graphs :
       /\ \A id \in CallerIds(g) :
             \A r \in remove_vertex_outcomes(World, g, id) : DocumentKept(g, r.w)
       /\ DocumentKept(g, clear(World, g))
       /\ DocumentKept(g, create_initial_triangle(World, g))
       /\ \A k \in 1..Len(Files) : DocumentKept(g, load_file(World, g, Files[k]).w)
       /\ \A r \in add_random_vertex(World, g) : DocumentKept(g, r.w)

-----------------------------------------------------------------------------
\* the step was an import that failed
FailedImport == lastOp'.op = "importDocument" /\ ~lastOp'.ok

\* C27: when importSnapshot fails (a missing field, or an edge that references
\* an undefined vertex), the graph is left exactly as it was before the call:
\* it is neither emptied nor left holding an edge whose endpoint is not a vertex.
C27_FailedImportUnchanged ==
    [][FailedImport =>
         /\ GraphUnchanged(lastOp'.g)
         /\ ~Dangling(graph'[lastOp'.g])]_vars

-----------------------------------------------------------------------------
(* The store with imports of exported documents only: a graph imports the  *)
(* document that to_dict returns for a graph, itself or the other one,     *)
(* which holds what it imported earlier.                                   *)

\* importer.from_dict(exporter.to_dict()); the edge list is in one of the orders
\* of the edge set, which the import can tell apart only at a dangling edge
ImportExport(importer) ==
    /\ passes < MaxPasses
    /\ \E exporter \in Graphs :
       \E edge_order \in (IF Dangling(graph[exporter]) THEN SeqsOf(graph[exporter].edges)
                          ELSE {CHOOSE o \in SeqsOf(graph[exporter].edges) : TRUE}) :
          LET r == from_dict(World, importer, to_dict(graph[exporter], edge_order))
          IN  Becomes(r.w, Op("importExport", importer, 0, 0, r.err = NoErr, r.err))

NextExported ==
    \/ AddVertex("g1")
    \/ AddEdge("g1")
    \/ RemoveVertex("g1")
    \/ Clear("g1")
    \/ CreateInitialTriangle("g1")
    \/ AddRandomVertex("g1")
    \/ ImportExport("g1")
    \/ ImportExport("g2")

SpecExported == Init /\ [][NextExported]_vars

\* add_vertex on g keeps every vertex and its adjacency set
AddVertexKeeps(g) ==
    \A k \in DOMAIN graph[g].vertices :
       /\ add_vertex(World, g, 0, 0, 1).w.gs[g].vertices[k] = graph[g].vertices[k]
       /\ add_vertex(World, g, 0, 0, 1).w.gs[g].adjacency[k] = graph[g].adjacency[k]

-----------------------------------------------------------------------------
RECURSIVE ReachedFrom(_, _)
\* the vertices a depth-first search over get_neighbors visits from those of S
ReachedFrom(G, S) ==
    LET T == S \cup UNION {get_neighbors(G, k) : k \in S}
    IN  IF T = S THEN S ELSE ReachedFrom(G, T)

\* the search from the first vertex visits as many vertices as the graph has
IsConnected(G) ==
    \/ G.vorder = <<>>
    \/ Cardinality(ReachedFrom(G, {G.vorder[1]})) = Len(G.vorder)

\* validate_graph_integrity's check for isolated vertices passes
NoIsolatedVertex(G) ==
    \A k \in DOMAIN G.vertices : get_neighbors(G, k) = {} => Len(G.vorder) <= 1

\* connected, no isolated vertex, no edge that references a missing vertex
Sound(G) == IsConnected(G) /\ NoIsolatedVertex(G) /\ ~Dangling(G)

\* what the triangle and every graph grown from it by insertions have besides:
\* the adjacency map agrees with the edge set and holds present vertices only,
\* the counter is no present ID, and the periphery lists present vertices
Grown(G, periphery) ==
    /\ Sound(G)
    /\ AdjacencySymmetric(G)
    /\ \A k \in DOMAIN G.vertices : get_neighbors(G, k) \subseteq DOMAIN G.vertices
    /\ \A k \in DOMAIN G.vertices : k < G.next_vertex_id
    /\ \A i \in DOMAIN periphery : periphery[i] \in DOMAIN G.vertices

-----------------------------------------------------------------------------
\* the cross product (curr - prev) x (next - curr) that the convexity step
\* computes at entry i of the periphery P
CrossAt(G, P, i) ==
    LET prev == Pos(G, P[IF i = 1 THEN Len(P) ELSE i - 1])
        curr == Pos(G, P[i])
        next == Pos(G, P[(i % Len(P)) + 1])
        u == <<FloatRound(curr[1] - prev[1], 1), FloatRound(curr[2] - prev[2], 1)>>
        v == <<FloatRound(next[1] - curr[1], 1), FloatRound(next[2] - curr[2], 1)>>
    IN  FloatRound(FloatRound(u[1] * v[2], 1) - FloatRound(u[2] * v[1], 1), 1)

\* every circular triple of P turns the way the convexity step accepts, and
\* the convexity step on P moves no vertex
AgreesWithConvexity(G, P) ==
    /\ \A i \in 1..Len(P) : CrossAt(G, P, i) > 0
    /\ maintain_convex_contour(G, P) = G

\* C30: for a graph with at least 3 vertices that are not all on one line,
\* right after updatePeriphery every circular triple (prev, curr, next) of the
\* periphery has a strictly positive cross product (curr - prev) x (next -
\* curr), so that the convexity step, run with no position change in between,
\* moves no vertex.
C30_HullOrderConvex ==
    \A g \in Graphs :
       HullRecomputed(g) /\ NotAllCollinear(graph[g])
          => AgreesWithConvexity(graph[g], Periphery(World, g))

\* C30, amended: the same, for graphs whose cross products are computed
\* without rounding.
C30_HullOrderConvexWhenExact ==
    \A g \in Graphs :
       HullRecomputed(g) /\ NotAllCollinear(graph[g]) /\ CrossesExact(graph[g])
          => AgreesWithConvexity(graph[g], Periphery(World, g))

\* updatePeriphery has returned a quadrilateral whose cross products are exact
C30_Witness ==
    /\ HullRecomputed("g1")
    /\ CrossesExact(graph["g1"])
    /\ Len(Periphery(World, "g1")) = 4
    /\ \A i \in 1..4 : CrossAt(graph["g1"], Periphery(World, "g1"), i) > 0

=============================================================================
